---- MODULE Spec2Model ----
(***************************************************************************)
(* Model of the Google Docs MCP server (src/src/server.ts and its two      *)
(* sibling revisions src/unnamed/part_001, src/unnamed/part_002): the      *)
(* content tree, the offset walks, the heading lookup, and the tool        *)
(* handlers that fetch a document, compute an edit batch and send it.      *)
(*                                                                         *)
(* Strings are sequences of one-character strings.  JavaScript's           *)
(* "undefined" for an optional string argument is the empty sequence and   *)
(* for an optional number it is 0: every test of the handlers on these     *)
(* arguments is a truthiness test, which "" and 0 fail like undefined.     *)
(***************************************************************************)
EXTENDS Integers, Sequences, FiniteSets, TLC

VARIABLES
  doc,      \* the remote document: its tabs, and whether documents.get reports them
  pc,       \* where the request being handled stands
  req,      \* the tool and the arguments of the request
  fetched,  \* what documents.get answered to this request
  calls,    \* the remote calls of this request, in the order they were issued
  result    \* what the handler returned

vars == <<doc, pc, req, fetched, calls, result>>

(***************************************************************************)
(* Bounds                                                                  *)
(***************************************************************************)
MaxParas == 3
MaxTabParas == 1

(***************************************************************************)
(* Strings                                                                 *)
(***************************************************************************)
Max(a, b) == IF a >= b THEN a ELSE b
Min(a, b) == IF a <= b THEN a ELSE b

IsSpace(c) == c \in {" ", "\n"}

LowerChar(c) == IF c = "A" THEN "a" ELSE IF c = "B" THEN "b" ELSE c

ToLowerCase(s) == [i \in 1..Len(s) |-> LowerChar(s[i])]

RECURSIVE TrimStart(_)
TrimStart(s) ==
  IF s = <<>> THEN <<>>
  ELSE IF IsSpace(Head(s)) THEN TrimStart(Tail(s)) ELSE s

RECURSIVE TrimEnd(_)
TrimEnd(s) ==
  IF s = <<>> THEN <<>>
  ELSE IF IsSpace(s[Len(s)]) THEN TrimEnd(SubSeq(s, 1, Len(s) - 1)) ELSE s

Trim(s) == TrimEnd(TrimStart(s))

(***************************************************************************)
(* Content tree.  A structural element is a paragraph (a list of paragraph *)
(* elements, each a text run or something else, and a paragraph style), a  *)
(* table (rows of cells, each cell a list of paragraphs) or another        *)
(* element (table of contents, section break).                             *)
(***************************************************************************)
TextRun(s) == [kind |-> "textRun", content |-> s]

Paragraph(style, s) ==
  [kind |-> "paragraph", namedStyleType |-> style,
   headingId |-> IF style = "NORMAL_TEXT" THEN "" ELSE "h",
   elements |-> <<TextRun(s)>>]

RECURSIVE SumLen(_)
SumLen(ss) == IF ss = <<>> THEN 0 ELSE Len(Head(ss)) + SumLen(Tail(ss))

RECURSIVE Concat(_)
Concat(ss) == IF ss = <<>> THEN <<>> ELSE Head(ss) \o Concat(Tail(ss))

\* the text of the runs of one paragraph, as the forEach loops collect it
RunsText(elements) ==
  Concat([i \in 1..Len(elements) |->
            IF elements[i].kind = "textRun" THEN elements[i].content ELSE <<>>])

\* the contents of the cells of a table, row by row and cell by cell, as the
\* nested forEach loops over tableRows and tableCells visit them
TableCellContents(el) ==
  Concat([i \in 1..Len(el.tableRows) |-> Concat(el.tableRows[i])])

RECURSIVE extractTextFromContent(_)
extractTextFromContent(content) ==
  IF content = <<>> THEN <<>>
  ELSE LET el == Head(content)
       IN  (IF el.kind = "paragraph" THEN RunsText(el.elements)
            ELSE IF el.kind = "table"
              THEN extractTextFromContent(TableCellContents(el))
              ELSE <<>>)
           \o extractTextFromContent(Tail(content))

(***************************************************************************)
(* Heading index                                                           *)
(***************************************************************************)
\* an indexer that does not advance past the heading it has recorded
RECURSIVE HeadingsNotAdvancing(_, _)
HeadingsNotAdvancing(content, currentIndex) ==
  IF content = <<>> THEN <<>>
  ELSE LET el == Head(content)
           len == IF el.kind = "paragraph" THEN Len(RunsText(el.elements))
                  ELSE IF el.kind = "table"
                    THEN Len(extractTextFromContent(TableCellContents(el)))
                    ELSE 0
       IN  IF el.kind = "paragraph" /\ el.headingId # ""
           THEN <<[level |-> el.headingId,
                   text |-> Trim(RunsText(el.elements)),
                   startIndex |-> currentIndex,
                   endIndex |-> currentIndex + len]>>
                \o HeadingsNotAdvancing(Tail(content), currentIndex)
           ELSE HeadingsNotAdvancing(Tail(content), currentIndex + len)

RECURSIVE HeadingsFrom(_, _)
HeadingsFrom(content, currentIndex) ==
  IF content = <<>> THEN <<>>
  ELSE LET el == Head(content)
           len == IF el.kind = "paragraph" THEN Len(RunsText(el.elements))
                  ELSE IF el.kind = "table"
                    THEN Len(extractTextFromContent(TableCellContents(el)))
                    ELSE 0
       IN  IF el.kind = "paragraph" /\ el.headingId # ""
           THEN <<[level |-> el.headingId,
                   text |-> Trim(RunsText(el.elements)),
                   startIndex |-> currentIndex,
                   endIndex |-> currentIndex + len]>>
                \o HeadingsFrom(Tail(content), currentIndex + len)
           ELSE HeadingsFrom(Tail(content), currentIndex + len)

findHeadingsWithPositions(content) == HeadingsFrom(content, 1)

\* a comparison of the titles as they are written
HeadingMatchesExactly(h, text) == h.text = text

\* headings.find(h => h.text.toLowerCase().trim() === text.toLowerCase().trim()):
\* the position of the first match in the list, 0 when there is none
HeadingMatches(h, text) == Trim(ToLowerCase(h.text)) = Trim(ToLowerCase(text))

\* a lookup that falls back to the first heading when none matches
FindHeadingOrFirst(headings, text) ==
  LET hits == {i \in 1..Len(headings) : HeadingMatches(headings[i], text)}
  IN  IF hits # {} THEN CHOOSE i \in hits : \A j \in hits : i <= j
      ELSE IF headings # <<>> THEN 1 ELSE 0

FindHeading(headings, text) ==
  LET hits == {i \in 1..Len(headings) : HeadingMatches(headings[i], text)}
  IN  IF hits = {} THEN 0 ELSE CHOOSE i \in hits : \A j \in hits : i <= j

\* headings.find(h => h.startIndex > target.endIndex)
FindNextHeading(headings, target) ==
  LET hits == {i \in 1..Len(headings) : headings[i].startIndex > target.endIndex}
  IN  IF hits = {} THEN 0 ELSE CHOOSE i \in hits : \A j \in hits : i <= j

(***************************************************************************)
(* Tabs.  A tab has the identifier of its tabProperties (tabId), the title  *)
(* the handlers read from documentTab, a body and child tabs.  The service *)
(* sets no tabId property on the tab itself: topTabId, the field           *)
(* server.ts compares with, is undefined.                                  *)
(***************************************************************************)
Tab(id, title, body, children) ==
  [tabId |-> id, topTabId |-> <<>>, title |-> title, body |-> body,
   childTabs |-> children]

RECURSIVE collectAllTabs(_)
collectAllTabs(tabs) ==
  IF tabs = <<>> THEN <<>>
  ELSE <<Head(tabs)>> \o collectAllTabs(Head(tabs).childTabs)
                      \o collectAllTabs(Tail(tabs))

\* what documents.get answers: the body of the document and, when the
\* call asks for the tabs' content and the service reports tabs, the tab tree
GetDocument(d, includeTabsContent) ==
  [body |-> d.tabs[1].body,
   hasTabs |-> d.reportsTabs /\ includeTabsContent,
   tabs |-> IF d.reportsTabs /\ includeTabsContent THEN d.tabs ELSE <<>>]

DocData(d) == GetDocument(d, TRUE)

\* allTabs.find(tab => tab.tabProperties?.tabId === tabId ||
\*   (tab.documentTab?.title && title.toLowerCase() === tabId.toLowerCase()))
TabMatches(tab, tabId) ==
  \/ tab.tabId = tabId
  \/ tab.title # <<>> /\ ToLowerCase(tab.title) = ToLowerCase(tabId)

FindTab(allTabs, tabId) ==
  LET hits == {i \in 1..Len(allTabs) : TabMatches(allTabs[i], tabId)}
  IN  IF hits = {} THEN 0 ELSE CHOOSE i \in hits : \A j \in hits : i <= j

\* the preamble every tab-scoped handler of part_001 and part_002 repeats:
\* targetBody is the document body unless a tabId is given and the document
\* reports tabs; then it is the matching tab's body or the handler throws
ResolveTargetBody(data, tabId) ==
  IF tabId # <<>> /\ data.hasTabs
  THEN LET allTabs == collectAllTabs(data.tabs)
           k == FindTab(allTabs, tabId)
       IN  IF k # 0 THEN [found |-> TRUE, content |-> allTabs[k].body]
           ELSE [found |-> FALSE, content |-> <<>>]
  ELSE [found |-> TRUE, content |-> data.body]

\* the same preamble in server.ts, which compares tab.tabId with the argument
TabMatchesTop(tab, tabId) ==
  \/ tab.topTabId = tabId
  \/ tab.title # <<>> /\ ToLowerCase(tab.title) = ToLowerCase(tabId)

FindTabTop(allTabs, tabId) ==
  LET hits == {i \in 1..Len(allTabs) : TabMatchesTop(allTabs[i], tabId)}
  IN  IF hits = {} THEN 0 ELSE CHOOSE i \in hits : \A j \in hits : i <= j

ResolveTargetBodyTop(data, tabId) ==
  IF tabId # <<>> /\ data.hasTabs
  THEN LET allTabs == collectAllTabs(data.tabs)
           k == FindTabTop(allTabs, tabId)
       IN  IF k # 0 THEN [found |-> TRUE, content |-> allTabs[k].body]
           ELSE [found |-> FALSE, content |-> <<>>]
  ELSE [found |-> TRUE, content |-> data.body]

(***************************************************************************)
(* Edit requests, as the handlers build them.  tabId is the empty string   *)
(* when the request carries none.                                          *)
(***************************************************************************)
InsertText(index, text, tabId) ==
  [type |-> "insertText", startIndex |-> index, endIndex |-> index,
   text |-> text, style |-> "", tabId |-> tabId]

DeleteContentRange(s, e, tabId) ==
  [type |-> "deleteContentRange", startIndex |-> s, endIndex |-> e,
   text |-> <<>>, style |-> "", tabId |-> tabId]

UpdateTextStyle(s, e, tabId) ==
  [type |-> "updateTextStyle", startIndex |-> s, endIndex |-> e,
   text |-> <<>>, style |-> "", tabId |-> tabId]

UpdateParagraphStyle(s, e, style, tabId) ==
  [type |-> "updateParagraphStyle", startIndex |-> s, endIndex |-> e,
   text |-> <<>>, style |-> style, tabId |-> tabId]

(***************************************************************************)
(* The remote service.  A body of paragraphs is a flat list of characters, *)
(* each with the style of its paragraph; the character at index i of the   *)
(* offset space is flat[i], and the body ends just past its final newline, *)
(* at Len(flat) + 1.  A batch is applied in order and as a whole.          *)
(***************************************************************************)
FlatParagraph(p) ==
  LET t == RunsText(p.elements)
  IN  [i \in 1..Len(t) |-> [ch |-> t[i], style |-> p.namedStyleType]]

FlatBody(content) == Concat([i \in 1..Len(content) |-> FlatParagraph(content[i])])

RECURSIVE FirstNewline(_, _)
FirstNewline(flat, i) ==
  IF i > Len(flat) THEN 0
  ELSE IF flat[i].ch = "\n" THEN i ELSE FirstNewline(flat, i + 1)

RECURSIVE Unflatten(_)
Unflatten(flat) ==
  IF flat = <<>> THEN <<>>
  ELSE LET n == FirstNewline(flat, 1)
           k == IF n = 0 THEN Len(flat) ELSE n
       IN  <<Paragraph(flat[k].style, [i \in 1..k |-> flat[i].ch])>>
           \o Unflatten(SubSeq(flat, k + 1, Len(flat)))

\* the end offset the service reports for the last element of a body
LastElementEndIndex(content) == Len(FlatBody(content)) + 1

RequestValid(flat, r) ==
  IF r.type = "insertText"
  THEN r.startIndex >= 1 /\ r.startIndex <= Len(flat)
  ELSE IF r.type = "deleteContentRange"
  THEN r.startIndex >= 1 /\ r.startIndex < r.endIndex /\ r.endIndex <= Len(flat)
  ELSE r.startIndex >= 1 /\ r.startIndex < r.endIndex /\ r.endIndex <= Len(flat) + 1

\* the start of the paragraph that holds index i
RECURSIVE ParagraphStart(_, _)
ParagraphStart(flat, i) ==
  IF i <= 1 THEN 1
  ELSE IF flat[i - 1].ch = "\n" THEN i ELSE ParagraphStart(flat, i - 1)

ParagraphEnd(flat, i) == FirstNewline(flat, i)

ApplyRequest(flat, r) ==
  IF r.type = "insertText"
  THEN LET st == flat[r.startIndex].style
       IN  SubSeq(flat, 1, r.startIndex - 1)
           \o [i \in 1..Len(r.text) |-> [ch |-> r.text[i], style |-> st]]
           \o SubSeq(flat, r.startIndex, Len(flat))
  ELSE IF r.type = "deleteContentRange"
  THEN SubSeq(flat, 1, r.startIndex - 1) \o SubSeq(flat, r.endIndex, Len(flat))
  ELSE IF r.type = "updateParagraphStyle" /\ r.style # ""
  THEN LET lo == ParagraphStart(flat, r.startIndex)
           hi == ParagraphEnd(flat, Min(r.endIndex - 1, Len(flat)))
       IN  [i \in 1..Len(flat) |->
              IF i >= lo /\ i <= hi THEN [flat[i] EXCEPT !.style = r.style]
              ELSE flat[i]]
  ELSE flat

\* the tab a request addresses: the first tab when it carries no tabId,
\* else the tab with exactly that identifier (0 when there is none)
RemoteTab(allTabs, tabId) ==
  IF tabId = <<>> THEN 1
  ELSE LET hits == {i \in 1..Len(allTabs) : allTabs[i].tabId = tabId}
       IN  IF hits = {} THEN 0 ELSE CHOOSE i \in hits : TRUE

SetChildBody(children, tabId, content) ==
  [i \in 1..Len(children) |->
     IF children[i].tabId = tabId THEN [children[i] EXCEPT !.body = content]
     ELSE children[i]]

SetTabBody(tabs, tabId, content) ==
  [i \in 1..Len(tabs) |->
     IF tabs[i].tabId = tabId THEN [tabs[i] EXCEPT !.body = content]
     ELSE [tabs[i] EXCEPT !.childTabs = SetChildBody(@, tabId, content)]]

\* [ok, tabs]: the tabs after the requests, or ok = FALSE when one of them
\* is rejected (then the batch changes nothing)
RECURSIVE ApplyRequests(_, _)
ApplyRequests(tabs, requests) ==
  IF requests = <<>> THEN [ok |-> TRUE, tabs |-> tabs]
  ELSE LET r == Head(requests)
           allTabs == collectAllTabs(tabs)
           k == RemoteTab(allTabs, r.tabId)
       IN  IF k = 0 THEN [ok |-> FALSE, tabs |-> tabs]
           ELSE LET flat == FlatBody(allTabs[k].body)
                IN  IF ~RequestValid(flat, r) THEN [ok |-> FALSE, tabs |-> tabs]
                    ELSE ApplyRequests(
                           SetTabBody(tabs, allTabs[k].tabId,
                                      Unflatten(ApplyRequest(flat, r))),
                           Tail(requests))

(***************************************************************************)
(* What a handler decides after the fetch: an error it throws before any   *)
(* edit, or the batch it sends.                                            *)
(***************************************************************************)
Throw(e) == [error |-> e, send |-> FALSE, requests |-> <<>>, index |-> 0]
Send(requests, index) ==
  [error |-> "", send |-> TRUE, requests |-> requests, index |-> index]
\* a successful return that sends no batch
Return(index) == [error |-> "", send |-> FALSE, requests |-> <<>>, index |-> index]

\* the updateTextStyle the heading tools add when a textStyle is given
StyleRequests(styled, index, content, tabId) ==
  IF styled THEN <<UpdateTextStyle(index, index + Len(content), tabId)>> ELSE <<>>

\* insert-content-after-heading
InsertContentAfterHeading(data, a) ==
  LET target == ResolveTargetBody(data, a.tabId)
      headings == findHeadingsWithPositions(target.content)
      k == FindHeading(headings, a.heading)
  IN  IF ~target.found THEN Throw("TabNotFound")
      ELSE IF k = 0 THEN Throw("HeadingNotFound")
      ELSE LET insertIndex == headings[k].endIndex
           IN  Send(<<InsertText(insertIndex, a.content, a.tabId)>>
                    \o StyleRequests(a.styled, insertIndex, a.content, a.tabId),
                    insertIndex)

\* the end of the section when no end heading is given: the next heading's
\* start, or the length of the extracted text
SectionEnd(headings, target, content) ==
  LET n == FindNextHeading(headings, target)
  IN  IF n # 0 THEN headings[n].startIndex
      ELSE Max(1, Len(extractTextFromContent(content)))

\* a replace-section-content whose section runs through the end heading
ReplaceSectionThroughEndHeading(data, a) ==
  LET target == ResolveTargetBody(data, a.tabId)
      headings == findHeadingsWithPositions(target.content)
      k == FindHeading(headings, a.heading)
      e == FindHeading(headings, a.endHeading)
  IN  IF ~target.found THEN Throw("TabNotFound")
      ELSE IF k = 0 THEN Throw("HeadingNotFound")
      ELSE IF a.endHeading # <<>> /\ e = 0 THEN Throw("HeadingNotFound")
      ELSE LET sectionStartIndex ==
                 IF a.preserveHeading THEN headings[k].endIndex
                 ELSE headings[k].startIndex
               sectionEndIndex ==
                 IF a.endHeading # <<>> THEN headings[e].endIndex
                 ELSE SectionEnd(headings, headings[k], target.content)
           IN  Send((IF sectionEndIndex > sectionStartIndex
                     THEN <<DeleteContentRange(sectionStartIndex, sectionEndIndex,
                                               a.tabId)>>
                     ELSE <<>>)
                    \o <<InsertText(sectionStartIndex, a.content, a.tabId)>>
                    \o StyleRequests(a.styled, sectionStartIndex, a.content, a.tabId),
                    sectionStartIndex)

\* replace-section-content
ReplaceSectionContent(data, a) ==
  LET target == ResolveTargetBody(data, a.tabId)
      headings == findHeadingsWithPositions(target.content)
      k == FindHeading(headings, a.heading)
      e == FindHeading(headings, a.endHeading)
  IN  IF ~target.found THEN Throw("TabNotFound")
      ELSE IF k = 0 THEN Throw("HeadingNotFound")
      ELSE IF a.endHeading # <<>> /\ e = 0 THEN Throw("HeadingNotFound")
      ELSE LET sectionStartIndex ==
                 IF a.preserveHeading THEN headings[k].endIndex
                 ELSE headings[k].startIndex
               sectionEndIndex ==
                 IF a.endHeading # <<>> THEN headings[e].startIndex
                 ELSE SectionEnd(headings, headings[k], target.content)
           IN  Send((IF sectionEndIndex > sectionStartIndex
                     THEN <<DeleteContentRange(sectionStartIndex, sectionEndIndex,
                                               a.tabId)>>
                     ELSE <<>>)
                    \o <<InsertText(sectionStartIndex, a.content, a.tabId)>>
                    \o StyleRequests(a.styled, sectionStartIndex, a.content, a.tabId),
                    sectionStartIndex)

\* append-to-section
AppendToSection(data, a) ==
  LET target == ResolveTargetBody(data, a.tabId)
      headings == findHeadingsWithPositions(target.content)
      k == FindHeading(headings, a.heading)
  IN  IF ~target.found THEN Throw("TabNotFound")
      ELSE IF k = 0 THEN Throw("HeadingNotFound")
      ELSE LET insertIndex == SectionEnd(headings, headings[k], target.content)
           IN  Send(<<InsertText(insertIndex, a.content, a.tabId)>>
                    \o StyleRequests(a.styled, insertIndex, a.content, a.tabId),
                    insertIndex)

\* the document length update-doc of server.ts computes: 1 plus the text of
\* the top-level paragraphs
RECURSIVE ParagraphsEnd(_, _)
ParagraphsEnd(content, documentLength) ==
  IF content = <<>> THEN documentLength
  ELSE ParagraphsEnd(Tail(content),
         IF Head(content).kind = "paragraph"
         THEN documentLength + Len(RunsText(Head(content).elements))
         ELSE documentLength)

\* update-doc (server.ts)
UpdateDoc_server(data, a) ==
  LET documentLength == ParagraphsEnd(data.body, 1)
  IN  IF a.replaceAll
      THEN Send(<<DeleteContentRange(1, documentLength, <<>>),
                  InsertText(1, a.content, <<>>)>>, 1)
      ELSE Send(<<InsertText(documentLength, a.content, <<>>)>>, documentLength)

\* the document length update-doc of part_002 computes: the end index the
\* service reports for the last element, less one
EndIndexLength(content) ==
  IF content # <<>> /\ LastElementEndIndex(content) # 0
  THEN LastElementEndIndex(content) - 1
  ELSE Max(1, Len(extractTextFromContent(content)))

\* update-doc (part_002)
UpdateDoc_part002(data, a) ==
  LET documentLength == EndIndexLength(data.body)
  IN  IF a.replaceAll
      THEN Send(<<DeleteContentRange(1, documentLength, <<>>),
                  InsertText(1, a.content, <<>>)>>, 1)
      ELSE Send(<<InsertText(documentLength, a.content, <<>>)>>, documentLength)

\* traverseContent of update-doc-with-style (server.ts)
RECURSIVE traverseContent(_, _)
traverseContent(content, currentIndex) ==
  IF content = <<>> THEN currentIndex
  ELSE LET el == Head(content)
       IN  traverseContent(Tail(content),
             IF el.kind = "paragraph"
             THEN currentIndex + Len(RunsText(el.elements))
             ELSE IF el.kind = "table"
               THEN traverseContent(TableCellContents(el), currentIndex)
               ELSE currentIndex)

\* Math.max(baseIndex, Math.min(insertionPoint, documentLength))
ClampInsertionPoint(insertionPoint, baseIndex, documentLength) ==
  Max(baseIndex, Min(insertionPoint, documentLength))

\* the style requests of update-doc-with-style
TextAndParagraphStyle(a, index, tabId) ==
  (IF a.styled
   THEN <<UpdateTextStyle(index, index + Len(a.content), tabId)>> ELSE <<>>)
  \o (IF a.paragraphStyled
      THEN <<UpdateParagraphStyle(index, index + Len(a.content), "", tabId)>>
      ELSE <<>>)

\* update-doc-with-style (server.ts, first registration)
UpdateDocWithStyle_server(data, a) ==
  LET target == ResolveTargetBodyTop(data, a.tabId)
      baseIndex == 1
      documentLength == traverseContent(target.content, baseIndex)
      insertIndex ==
        IF a.replaceAll THEN baseIndex
        ELSE IF a.insertionPoint # 0
          THEN ClampInsertionPoint(a.insertionPoint, baseIndex, documentLength)
          ELSE documentLength
  IN  IF ~target.found THEN Throw("TabNotFound")
      ELSE Send((IF a.replaceAll
                 THEN <<DeleteContentRange(baseIndex, documentLength, <<>>)>>
                 ELSE <<>>)
                \o <<InsertText(insertIndex, a.content, a.tabId)>>
                \o TextAndParagraphStyle(a, insertIndex, a.tabId),
                insertIndex)

\* a document length that stops one character short
TextLengthShort(content, baseIndex) ==
  baseIndex + Max(0, Len(extractTextFromContent(content)) - 2)

\* the document length of part_001 and part_002: the text length, less one
\* when there is text
TextLength(content, baseIndex) ==
  IF content # <<>>
  THEN baseIndex + Max(0, Len(extractTextFromContent(content)) - 1)
  ELSE baseIndex

\* update-doc-with-style (part_002)
UpdateDocWithStyle_part002(data, a) ==
  LET target == ResolveTargetBody(data, a.tabId)
      baseIndex == 1
      documentLength == TextLength(target.content, baseIndex)
      insertIndex ==
        IF a.replaceAll THEN baseIndex
        ELSE IF a.insertionPoint # 0
          THEN ClampInsertionPoint(a.insertionPoint, baseIndex, documentLength)
          ELSE documentLength
  IN  IF ~target.found THEN Throw("TabNotFound")
      ELSE Send((IF a.replaceAll /\ documentLength > baseIndex
                 THEN <<DeleteContentRange(baseIndex, documentLength, a.tabId)>>
                 ELSE <<>>)
                \o <<InsertText(insertIndex, a.content, a.tabId)>>
                \o TextAndParagraphStyle(a, insertIndex, a.tabId),
                insertIndex)

\* the body update-doc-with-style (server.ts, second registration) measures:
\* the body of the top-level tab with the target identifier when the
\* document reports tabs, else the document body; found is FALSE when the
\* content is undefined
TargetBodyContent(data, targetTabId) ==
  IF data.hasTabs /\ data.tabs # <<>>
  THEN LET hits == {i \in 1..Len(data.tabs) : data.tabs[i].tabId = targetTabId}
       IN  IF hits = {} THEN [found |-> FALSE, content |-> <<>>]
           ELSE [found |-> TRUE,
                 content |-> data.tabs[CHOOSE i \in hits :
                                         \A j \in hits : i <= j].body]
  ELSE [found |-> TRUE, content |-> data.body]

\* lastElement.endIndex - 1 of the measured body, or the value the index had
LastIndexOr(body, default) ==
  IF body.found /\ body.content # <<>> /\ LastElementEndIndex(body.content) # 0
  THEN LastElementEndIndex(body.content) - 1
  ELSE default

\* update-doc-with-style (server.ts, second registration)
UpdateDocWithStyle_server2(data, a) ==
  LET targetTabId ==
        IF data.hasTabs /\ data.tabs # <<>> /\ a.tabId = <<>>
        THEN data.tabs[1].tabId ELSE a.tabId
      body == TargetBodyContent(data, targetTabId)
      targetIndex ==
        IF a.replaceAll THEN 1
        ELSE IF a.insertionPoint # 0 THEN a.insertionPoint
        ELSE LastIndexOr(body, 1)
  IN  Send((IF a.replaceAll
            THEN <<DeleteContentRange(1, LastIndexOr(body, -1), targetTabId)>>
            ELSE <<>>)
           \o <<InsertText(targetIndex, a.content, targetTabId)>>
           \o TextAndParagraphStyle(a, targetIndex, targetTabId),
           targetIndex)

(***************************************************************************)
(* Markdown decoder (part_001)                                             *)
(***************************************************************************)
\* markdownString.split('\n')
RECURSIVE Split(_)
Split(s) ==
  LET n == CHOOSE k \in 0..Len(s) :
             /\ k # 0 => s[k] = "\n"
             /\ \A j \in 1..Len(s) : s[j] = "\n" => (k # 0 /\ k <= j)
  IN  IF n = 0 THEN <<s>>
      ELSE <<SubSeq(s, 1, n - 1)>> \o Split(SubSeq(s, n + 1, Len(s)))

\* the length of the run of characters from position i on that satisfy /
\* do not satisfy being the character d
RECURSIVE RunOf(_, _, _)
RunOf(s, i, d) ==
  IF i > Len(s) \/ s[i] # d THEN 0 ELSE 1 + RunOf(s, i + 1, d)

RECURSIVE RunOfNot(_, _, _)
RunOfNot(s, i, d) ==
  IF i > Len(s) \/ s[i] = d THEN 0 ELSE 1 + RunOfNot(s, i + 1, d)

RECURSIVE SpaceRun(_, _)
SpaceRun(s, i) ==
  IF i > Len(s) \/ ~IsSpace(s[i]) THEN 0 ELSE 1 + SpaceRun(s, i + 1)

\* line.match(/^(#{1,6})\s+(.+)$/): one to six leading '#', then white space,
\* then at least one more character; level is the number of '#', text the
\* second group trimmed
HeadingMatch(line) ==
  LET h == RunOf(line, 1, "#")
  IN  IF h >= 1 /\ h <= 6 /\ SpaceRun(line, h + 1) >= 1 /\ Len(line) >= h + 2
      THEN [matched |-> TRUE, level |-> h,
            text |-> Trim(SubSeq(line, h + 1, Len(line)))]
      ELSE [matched |-> FALSE, level |-> 0, text |-> line]

HeadingStyle(level) ==
  CASE level = 1 -> "HEADING_1" [] level = 2 -> "HEADING_2"
    [] level = 3 -> "HEADING_3" [] level = 4 -> "HEADING_4"
    [] level = 5 -> "HEADING_5" [] OTHER -> "HEADING_6"

\* the four inline patterns: the marker character, how many of them open and
\* close a span, whether the marker must stand alone (the look-behind and
\* look-ahead of the italic pattern), and the style.  The backquote of the
\* code pattern is written ^ here.
Patterns ==
  << [d |-> "*", n |-> 2, alone |-> FALSE, style |-> "bold"],
     [d |-> "*", n |-> 1, alone |-> TRUE, style |-> "italic"],
     [d |-> "~", n |-> 2, alone |-> FALSE, style |-> "strikethrough"],
     [d |-> "^", n |-> 1, alone |-> FALSE, style |-> "code"] >>

\* does the pattern match at position i: the opening marker, a non-empty run
\* of characters other than the marker, the closing marker right after it
MatchesAt(text, i, pat) ==
  LET inner == RunOfNot(text, i + pat.n, pat.d)
      close == i + pat.n + inner
  IN  /\ i + pat.n - 1 <= Len(text)
      /\ \A j \in i..(i + pat.n - 1) : text[j] = pat.d
      /\ inner >= 1
      /\ close + pat.n - 1 <= Len(text)
      /\ \A j \in close..(close + pat.n - 1) : text[j] = pat.d
      /\ pat.alone => /\ (i > 1 => text[i - 1] # pat.d)
                      /\ (close + pat.n <= Len(text) => text[close + pat.n] # pat.d)

\* the matches regex.exec finds from position pos on, each [start, end) with
\* the captured text
RECURSIVE ExecAll(_, _, _)
ExecAll(text, pos, pat) ==
  IF pos > Len(text) THEN <<>>
  ELSE IF MatchesAt(text, pos, pat)
    THEN LET inner == RunOfNot(text, pos + pat.n, pat.d)
             end == pos + 2 * pat.n + inner
         IN  <<[start |-> pos, end |-> end,
                text |-> SubSeq(text, pos + pat.n, pos + pat.n + inner - 1),
                style |-> pat.style]>> \o ExecAll(text, end, pat)
    ELSE ExecAll(text, pos + 1, pat)

AllMatches(text) ==
  Concat([k \in 1..Len(Patterns) |-> ExecAll(text, 1, Patterns[k])])

\* matches.sort((a, b) => a.start - b.start): a stable insertion sort
RECURSIVE InsertByStart(_, _)
InsertByStart(sorted, m) ==
  IF sorted = <<>> THEN <<m>>
  ELSE IF Head(sorted).start <= m.start
    THEN <<Head(sorted)>> \o InsertByStart(Tail(sorted), m)
    ELSE <<m>> \o sorted

RECURSIVE SortByStart(_)
SortByStart(ms) ==
  IF ms = <<>> THEN <<>>
  ELSE InsertByStart(SortByStart(SubSeq(ms, 1, Len(ms) - 1)), ms[Len(ms)])

\* a filter that keeps every match
ValidMatchesAll(ms, lastEnd) == ms

\* a match is kept when it starts at or after the end of the last kept one
RECURSIVE ValidMatches(_, _)
ValidMatches(ms, lastEnd) ==
  IF ms = <<>> THEN <<>>
  ELSE IF Head(ms).start >= lastEnd
    THEN <<Head(ms)>> \o ValidMatches(Tail(ms), Head(ms).end)
    ELSE ValidMatches(Tail(ms), lastEnd)

Segment(text, style) == [text |-> text, style |-> style]

RECURSIVE BuildSegments(_, _, _)
BuildSegments(text, ms, pos) ==
  IF ms = <<>>
  THEN IF pos <= Len(text) THEN <<Segment(SubSeq(text, pos, Len(text)), "")>>
       ELSE <<>>
  ELSE (IF Head(ms).start > pos
        THEN <<Segment(SubSeq(text, pos, Head(ms).start - 1), "")>> ELSE <<>>)
       \o <<Segment(Head(ms).text, Head(ms).style)>>
       \o BuildSegments(text, Tail(ms), Head(ms).end)

parseInlineFormatting(text) ==
  LET segments ==
        BuildSegments(text, ValidMatches(SortByStart(AllMatches(text)), 1), 1)
  IN  IF segments = <<>> THEN <<Segment(text, "")>> ELSE segments

\* the requests of one non-blank line: for each segment its insertText (the
\* last one with the newline), after the first segment's insertText the
\* updateParagraphStyle of the line, and the updateTextStyle of a styled
\* segment
\* a segment loop whose text style covers the text as inserted, with the
\* newline of the last segment
RECURSIVE SegmentRequestsWithNewline(_, _, _, _, _)
SegmentRequestsWithNewline(segments, k, currentIndex, namedStyleType, tabId) ==
  IF k > Len(segments) THEN <<>>
  ELSE LET segment == segments[k]
           textWithNewline ==
             IF k = Len(segments) THEN segment.text \o <<"\n">> ELSE segment.text
           segmentEndIndex == currentIndex + Len(textWithNewline)
           total == SumLen([i \in 1..Len(segments) |-> segments[i].text])
       IN  <<InsertText(currentIndex, textWithNewline, tabId)>>
           \o (IF k = 1
               THEN <<UpdateParagraphStyle(currentIndex, currentIndex + total + 1,
                                           namedStyleType, tabId)>>
               ELSE <<>>)
           \o (IF segment.style # ""
               THEN <<UpdateTextStyle(currentIndex, segmentEndIndex, tabId)>>
               ELSE <<>>)
           \o SegmentRequestsWithNewline(segments, k + 1, segmentEndIndex,
                                         namedStyleType, tabId)

RECURSIVE SegmentRequests(_, _, _, _, _)
SegmentRequests(segments, k, currentIndex, namedStyleType, tabId) ==
  IF k > Len(segments) THEN <<>>
  ELSE LET segment == segments[k]
           textWithNewline ==
             IF k = Len(segments) THEN segment.text \o <<"\n">> ELSE segment.text
           segmentEndIndex == currentIndex + Len(textWithNewline)
           total == SumLen([i \in 1..Len(segments) |-> segments[i].text])
       IN  <<InsertText(currentIndex, textWithNewline, tabId)>>
           \o (IF k = 1
               THEN <<UpdateParagraphStyle(currentIndex, currentIndex + total + 1,
                                           namedStyleType, tabId)>>
               ELSE <<>>)
           \o (IF segment.style # ""
               THEN <<UpdateTextStyle(currentIndex,
                                      currentIndex + Len(segment.text), tabId)>>
               ELSE <<>>)
           \o SegmentRequests(segments, k + 1, segmentEndIndex, namedStyleType,
                              tabId)

\* a cursor that advances by one for each request
InsertedCount(requests) == Len(requests)

RECURSIVE InsertedLength(_)
InsertedLength(requests) ==
  IF requests = <<>> THEN 0
  ELSE Len(Head(requests).text) + InsertedLength(Tail(requests))

RECURSIVE LineRequests(_, _, _, _)
LineRequests(lines, i, currentIndex, tabId) ==
  IF i > Len(lines) THEN <<>>
  ELSE LET line == lines[i]
       IN  IF Trim(line) = <<>>
           THEN IF i < Len(lines)
                THEN <<InsertText(currentIndex, <<"\n">>, tabId)>>
                     \o LineRequests(lines, i + 1, currentIndex + 1, tabId)
                ELSE LineRequests(lines, i + 1, currentIndex, tabId)
           ELSE LET m == HeadingMatch(line)
                    namedStyleType ==
                      IF m.matched THEN HeadingStyle(m.level) ELSE "NORMAL_TEXT"
                    rs == SegmentRequests(parseInlineFormatting(m.text), 1,
                                          currentIndex, namedStyleType, tabId)
                IN  rs \o LineRequests(lines, i + 1,
                                       currentIndex + InsertedLength(rs), tabId)

parseMarkdownToDocRequests(markdownString, startIndex, tabId) ==
  LineRequests(Split(markdownString), 1, startIndex, tabId)

\* a clearing step that sends its delete whatever the length
WriteMarkdownClearAlways(data, a) ==
  LET target == ResolveTargetBody(data, a.tabId)
      baseIndex == 1
      documentLength == TextLength(target.content, baseIndex)
  IN  IF ~target.found THEN Throw("TabNotFound")
      ELSE Send(<<DeleteContentRange(baseIndex, documentLength, a.tabId)>>,
                baseIndex)

\* Step 1 of writeMarkdownToGoogleDoc: the tab, the document length, and the
\* batch that clears the body (none when there is nothing to clear)
WriteMarkdownClear(data, a) ==
  LET target == ResolveTargetBody(data, a.tabId)
      baseIndex == 1
      documentLength == TextLength(target.content, baseIndex)
  IN  IF ~target.found THEN Throw("TabNotFound")
      ELSE Send(IF documentLength > baseIndex
                THEN <<DeleteContentRange(baseIndex, documentLength, a.tabId)>>
                ELSE <<>>, baseIndex)

\* an insertion batch that names no tab
WriteMarkdownInsertUntagged(a) == parseMarkdownToDocRequests(a.markdown, 1, <<>>)

\* Step 2 of writeMarkdownToGoogleDoc: the insertion batch, every request
\* given the tabId once more when there is one
WriteMarkdownInsert(a) ==
  LET markdownRequests == parseMarkdownToDocRequests(a.markdown, 1, a.tabId)
  IN  [i \in 1..Len(markdownRequests) |->
         IF a.tabId # <<>> THEN [markdownRequests[i] EXCEPT !.tabId = a.tabId]
         ELSE markdownRequests[i]]

(***************************************************************************)
(* Markdown tools of part_002                                              *)
(***************************************************************************)
RECURSIVE ParseLines(_, _, _)
ParseLines(lines, i, elements) ==
  IF i > Len(lines) THEN elements
  ELSE LET line == lines[i]
           m == HeadingMatch(line)
       IN  ParseLines(lines, i + 1,
             IF m.matched
             THEN Append(elements,
                    [type |-> "heading", text |-> m.text \o <<"\n">>,
                     namedStyleType |-> HeadingStyle(m.level)])
             ELSE IF Trim(line) # <<>> \/ elements = <<>>
               THEN Append(elements,
                      [type |-> "paragraph", text |-> line \o <<"\n">>,
                       namedStyleType |-> "NORMAL_TEXT"])
               ELSE elements)

parseMarkdownContent(markdownText) == ParseLines(Split(markdownText), 1, <<>>)

\* for each element its insertText and the updateParagraphStyle over it
RECURSIVE ElementRequests(_, _, _)
ElementRequests(elements, currentIndex, tabId) ==
  IF elements = <<>> THEN <<>>
  ELSE LET element == Head(elements)
           endIndex == currentIndex + Len(element.text)
       IN  <<InsertText(currentIndex, element.text, tabId),
             UpdateParagraphStyle(currentIndex, endIndex, element.namedStyleType,
                                  tabId)>>
           \o ElementRequests(Tail(elements), endIndex, tabId)

\* insert-markdown-content
InsertMarkdownContent(data, a) ==
  LET target == ResolveTargetBody(data, a.tabId)
      baseIndex == 1
      documentLength == TextLength(target.content, baseIndex)
      elements == parseMarkdownContent(a.markdown)
      insertIndex ==
        IF a.replaceAll THEN baseIndex
        ELSE IF a.insertionPoint # 0
          THEN ClampInsertionPoint(a.insertionPoint, baseIndex, documentLength)
          ELSE documentLength
  IN  IF ~target.found THEN Throw("TabNotFound")
      ELSE Send((IF a.replaceAll /\ documentLength > baseIndex
                 THEN <<DeleteContentRange(baseIndex, documentLength, a.tabId)>>
                 ELSE <<>>)
                \o ElementRequests(elements, insertIndex, a.tabId),
                insertIndex)

\* String.prototype.substring on 0-based positions: arguments below 0 or
\* beyond the length are clamped, and swapped when the first is the larger
Substring(str, from, to) ==
  LET f == Max(0, Min(from, Len(str)))
      t == Max(0, Min(to, Len(str)))
  IN  SubSeq(str, Min(f, t) + 1, Max(f, t))

\* extractTextFromRange of convert-text-to-markdown-headings: the parts of
\* the text runs of the top-level paragraphs that overlap [start, end)
RECURSIVE RunsInRange(_, _, _, _)
RunsInRange(runs, index, start, end) ==
  IF runs = <<>> THEN [text |-> <<>>, index |-> index]
  ELSE IF Head(runs).kind = "textRun" /\ Head(runs).content # <<>>
    THEN LET textContent == Head(runs).content
             textStart == index
             textEnd == index + Len(textContent)
             part == IF textStart < end /\ textEnd > start
                     THEN Substring(textContent, Max(0, start - textStart),
                                    Min(Len(textContent), end - textStart))
                     ELSE <<>>
             rest == RunsInRange(Tail(runs), textEnd, start, end)
         IN  [text |-> part \o rest.text, index |-> rest.index]
    ELSE RunsInRange(Tail(runs), index, start, end)

RECURSIVE TextFromRange(_, _, _, _)
TextFromRange(content, index, start, end) ==
  IF content = <<>> THEN <<>>
  ELSE IF Head(content).kind = "paragraph"
    THEN LET r == RunsInRange(Head(content).elements, index, start, end)
         IN  r.text \o TextFromRange(Tail(content), r.index, start, end)
    ELSE TextFromRange(Tail(content), index, start, end)

extractTextFromRange(content, start, end) == TextFromRange(content, 1, start, end)

\* convert-text-to-markdown-headings; with no heading pattern in the range it
\* returns a message and sends nothing
ConvertTextToMarkdownHeadings(data, a) ==
  LET target == ResolveTargetBody(data, a.tabId)
      extractedText == extractTextFromRange(target.content, a.startIndex, a.endIndex)
      elements == parseMarkdownContent(extractedText)
      headingsFound == {i \in 1..Len(elements) : elements[i].type = "heading"}
  IN  IF ~target.found THEN Throw("TabNotFound")
      ELSE IF headingsFound = {} THEN Return(0)
      ELSE Send(<<DeleteContentRange(a.startIndex, a.endIndex, a.tabId)>>
                \o ElementRequests(elements, a.startIndex, a.tabId),
                a.startIndex)

(***************************************************************************)
(* get-text-style (server.ts, second registration)                         *)
(***************************************************************************)
\* documentContent: the top-level tab with the target identifier when the
\* document reports tabs, else the document itself
StyleTarget(data, tabId) ==
  LET targetTabId ==
        IF data.hasTabs /\ data.tabs # <<>> /\ tabId = <<>>
        THEN data.tabs[1].tabId ELSE tabId
  IN  TargetBodyContent(data, targetTabId)

\* the text runs of one paragraph that overlap [startIndex, actualEndIndex),
\* with the index after the paragraph; an element that is no text run
\* advances the index by one
RECURSIVE StyleRuns(_, _, _, _)
StyleRuns(elems, currentIndex, startIndex, actualEndIndex) ==
  IF elems = <<>> THEN [found |-> <<>>, index |-> currentIndex]
  ELSE LET elem == Head(elems)
           elementEndIndex ==
             IF elem.kind = "textRun" THEN currentIndex + Len(elem.content)
             ELSE currentIndex + 1
           hit == /\ elem.kind = "textRun"
                  /\ currentIndex < actualEndIndex
                  /\ elementEndIndex > startIndex
           rest == StyleRuns(Tail(elems), elementEndIndex, startIndex, actualEndIndex)
       IN  [found |-> (IF hit
                       THEN <<[startIndex |-> currentIndex,
                               endIndex |-> elementEndIndex,
                               content |-> elem.content]>>
                       ELSE <<>>) \o rest.found,
            index |-> rest.index]

RECURSIVE StyleTraverse(_, _, _, _)
StyleTraverse(content, currentIndex, startIndex, actualEndIndex) ==
  IF content = <<>> THEN [found |-> <<>>, index |-> currentIndex]
  ELSE LET element == Head(content)
           here ==
             IF element.kind = "paragraph"
             THEN StyleRuns(element.elements, currentIndex, startIndex,
                            actualEndIndex)
             ELSE IF element.kind = "table"
               THEN StyleTraverse(TableCellContents(element), currentIndex,
                                  startIndex, actualEndIndex)
               ELSE [found |-> <<>>, index |-> currentIndex + 1]
           rest == StyleTraverse(Tail(content), here.index, startIndex,
                                 actualEndIndex)
       IN  [found |-> here.found \o rest.found, index |-> rest.index]

\* get-text-style: the error, or the styles found
GetTextStyle_server2(data, a) ==
  LET target == StyleTarget(data, a.tabId)
      actualEndIndex == IF a.endIndex # 0 THEN a.endIndex ELSE a.startIndex + 1
  IN  IF ~target.found THEN [error |-> "TabNotFound", found |-> <<>>]
      ELSE [error |-> "",
            found |-> StyleTraverse(target.content, 1, a.startIndex,
                                    actualEndIndex).found]

(***************************************************************************)
(* get-text-style (part_002)                                               *)
(***************************************************************************)
\* traverseContent of get-text-style: a paragraph is looked into only when
\* currentIndex <= effectiveEndIndex and currentIndex plus the number of its
\* elements >= startIndex, and only then do its text runs advance the index
RECURSIVE StyleTraverse_part002(_, _, _, _)
StyleTraverse_part002(content, currentIndex, startIndex, effectiveEndIndex) ==
  LET RECURSIVE Runs(_, _)
      Runs(elems, index) ==
        IF elems = <<>> THEN [found |-> <<>>, index |-> index]
        ELSE IF Head(elems).kind # "textRun" THEN Runs(Tail(elems), index)
        ELSE LET textEndIndex == index + Len(Head(elems).content)
                 rest == Runs(Tail(elems), textEndIndex)
             IN  [found |-> (IF index <= effectiveEndIndex
                                /\ textEndIndex >= startIndex
                             THEN <<[startIndex |-> index,
                                     endIndex |-> textEndIndex,
                                     content |-> Head(elems).content]>>
                             ELSE <<>>) \o rest.found,
                  index |-> rest.index]
  IN  IF content = <<>> THEN [found |-> <<>>, index |-> currentIndex]
      ELSE LET element == Head(content)
               here ==
                 IF element.kind = "paragraph"
                 THEN IF /\ currentIndex <= effectiveEndIndex
                         /\ currentIndex + Len(element.elements) >= startIndex
                      THEN Runs(element.elements, currentIndex)
                      ELSE [found |-> <<>>, index |-> currentIndex]
                 ELSE IF element.kind = "table"
                   THEN StyleTraverse_part002(TableCellContents(element),
                          currentIndex, startIndex, effectiveEndIndex)
                   ELSE [found |-> <<>>, index |-> currentIndex]
               rest == StyleTraverse_part002(Tail(content), here.index,
                                             startIndex, effectiveEndIndex)
           IN  [found |-> here.found \o rest.found, index |-> rest.index]

\* get-text-style: the error, or the text styles found
GetTextStyle_part002(data, a) ==
  LET target == ResolveTargetBody(data, a.tabId)
      effectiveEndIndex == IF a.endIndex # 0 THEN a.endIndex ELSE a.startIndex + 1
  IN  IF ~target.found THEN [error |-> "TabNotFound", found |-> <<>>]
      ELSE [error |-> "",
            found |-> StyleTraverse_part002(target.content, 1, a.startIndex,
                                            effectiveEndIndex).found]

(***************************************************************************)
(* Documents and arguments the requests are drawn from                     *)
(***************************************************************************)
ParaShapes ==
  { Paragraph("HEADING_1", <<"a", "\n">>),
    Paragraph("HEADING_2", <<"A", " ", "\n">>),
    Paragraph("HEADING_1", <<"b", "\n">>),
    Paragraph("NORMAL_TEXT", <<"#", " ", "x", "\n">>),
    Paragraph("NORMAL_TEXT", <<"\n">>) }

Bodies(n) == UNION {[1..k -> ParaShapes] : k \in 1..n}

MainTabId == <<"t", "1">>
SecondTabId == <<"t", "2">>
SecondTabTitle == <<"A", "b">>

Documents ==
  \* one tab only
  { [tabs |-> <<Tab(MainTabId, <<>>, b, <<>>)>>, reportsTabs |-> TRUE] :
      b \in Bodies(MaxParas) }
  \cup
  \* a document for which the service reports no tabs
  { [tabs |-> <<Tab(MainTabId, <<>>, b, <<>>)>>, reportsTabs |-> FALSE] :
      b \in Bodies(MaxTabParas) }
  \cup
  \* a second tab beside the first
  { [tabs |-> <<Tab(MainTabId, <<>>, <<Paragraph("NORMAL_TEXT", <<"x", "\n">>)>>, <<>>),
                Tab(SecondTabId, SecondTabTitle, b, <<>>)>>,
     reportsTabs |-> TRUE] : b \in Bodies(MaxTabParas) }
  \cup
  \* a second tab nested in the first
  { [tabs |-> <<Tab(MainTabId, <<>>, <<Paragraph("NORMAL_TEXT", <<"\n">>)>>,
                    <<Tab(SecondTabId, SecondTabTitle, b, <<>>)>>)>>,
     reportsTabs |-> TRUE] : b \in Bodies(MaxTabParas) }

TabIds == { <<>>, SecondTabId, <<"a", "b">>, <<"z">> }
HeadingTexts == { <<"a">>, <<" ", "B">>, <<"z">> }
EndHeadingTexts == { <<>>, <<"a">>, <<"z">> }
Contents == { <<"y">> }
Markdowns ==
  { <<>>, <<"#", " ", "a">>, <<"x", "\n", "*", "y", "*">>,
    <<"x", "\n", "\n", "#", " ", "a", "\n">> }
\* an optional number that is not given is undefined, which the handlers'
\* tests treat as they treat 0
InsertionPoints == {-1, 0, 2, 99}
InsertionPointArgs ==
  {[given |-> FALSE, p |-> 0]} \cup {[given |-> TRUE, p |-> p] : p \in InsertionPoints}
StartIndexes == {1, 3}
EndIndexes == {0, 1, 5, 99}

NoArgs ==
  [op |-> "", file |-> "", index |-> 0, tabId |-> <<>>, heading |-> <<>>, endHeading |-> <<>>,
   preserveHeading |-> TRUE, content |-> <<>>, styled |-> FALSE,
   paragraphStyled |-> FALSE,
   replaceAll |-> FALSE, insertionPointGiven |-> FALSE, insertionPoint |-> 0,
   startIndex |-> 0,
   endIndex |-> 0, markdown |-> <<>>]

NoData == [body |-> <<>>, hasTabs |-> FALSE, tabs |-> <<>>]

Get == [kind |-> "get", requests |-> <<>>, status |-> "ok"]
BatchUpdate(requests) ==
  [kind |-> "batchUpdate", requests |-> requests, status |-> "pending"]

Ok(index) == [status |-> "ok", error |-> "", index |-> index, found |-> <<>>]
Error(e) == [status |-> "error", error |-> e, index |-> 0, found |-> <<>>]

Init ==
  /\ doc \in Documents
  /\ pc = "idle"
  /\ req = NoArgs
  /\ fetched = NoData
  /\ calls = <<>>
  /\ result = [status |-> "none", error |-> "", index |-> 0, found |-> <<>>]

(***************************************************************************)
(* A handler that sends one batch: the fetch, the decision, and the        *)
(* batchUpdate left pending at its await.                                  *)
(***************************************************************************)
Handle(a, got, plan) ==
  /\ pc = "idle"
  /\ req' = [a EXCEPT !.index = plan.index]
  /\ fetched' = got
  /\ IF plan.error # ""
     THEN /\ pc' = "done"
          /\ calls' = <<Get>>
          /\ result' = Error(plan.error)
     ELSE IF ~plan.send
       THEN /\ pc' = "done"
            /\ calls' = <<Get>>
            /\ result' = Ok(plan.index)
       ELSE /\ pc' = "awaitBatch"
            /\ calls' = <<Get, BatchUpdate(plan.requests)>>
            /\ result' = result
  /\ UNCHANGED doc

HeadingArgs(op) ==
  { [NoArgs EXCEPT !.op = op, !.file = "part_002", !.tabId = t, !.heading = h, !.content = c,
                   !.styled = st] :
      t \in TabIds, h \in HeadingTexts, c \in Contents, st \in BOOLEAN }

InsertAfterHeadingRequest ==
  \E a \in HeadingArgs("insert-content-after-heading") :
    Handle(a, DocData(doc), InsertContentAfterHeading(DocData(doc), a))

ReplaceSectionRequest ==
  \E a \in HeadingArgs("replace-section-content"),
     e \in EndHeadingTexts, ph \in BOOLEAN :
    LET b == [a EXCEPT !.endHeading = e, !.preserveHeading = ph]
    IN  Handle(b, DocData(doc), ReplaceSectionContent(DocData(doc), b))

AppendToSectionRequest ==
  \E a \in HeadingArgs("append-to-section") :
    Handle(a, DocData(doc), AppendToSection(DocData(doc), a))

UpdateArgs(file) ==
  { [NoArgs EXCEPT !.op = "update-doc", !.file = file, !.content = c,
                   !.replaceAll = ra] :
      c \in Contents, ra \in BOOLEAN }

\* update-doc fetches without the tabs' content
UpdateDocRequest_server ==
  \E a \in UpdateArgs("server") :
    Handle(a, GetDocument(doc, FALSE), UpdateDoc_server(GetDocument(doc, FALSE), a))

UpdateDocRequest_part002 ==
  \E a \in UpdateArgs("part_002") :
    Handle(a, GetDocument(doc, FALSE), UpdateDoc_part002(GetDocument(doc, FALSE), a))

StyleArgs(file) ==
  { [NoArgs EXCEPT !.op = "update-doc-with-style", !.file = file, !.tabId = t, !.content = c, !.replaceAll = ra,
                   !.insertionPointGiven = ip.given, !.insertionPoint = ip.p,
                   !.styled = st, !.paragraphStyled = st] :
      t \in TabIds, c \in Contents, ra \in BOOLEAN, ip \in InsertionPointArgs,
      st \in BOOLEAN }

UpdateDocWithStyleRequest_server ==
  \E a \in StyleArgs("server") :
    /\ a.replaceAll => ~a.insertionPointGiven
    /\ Handle(a, DocData(doc), UpdateDocWithStyle_server(DocData(doc), a))

\* the second registration asks for the tabs' content only with a tabId
UpdateDocWithStyleRequest_server2 ==
  \E a \in StyleArgs("server2") :
    LET got == GetDocument(doc, a.tabId # <<>>)
    IN  /\ a.replaceAll => ~a.insertionPointGiven
        /\ Handle(a, got, UpdateDocWithStyle_server2(got, a))

UpdateDocWithStyleRequest_part002 ==
  \E a \in StyleArgs("part_002") :
    /\ a.replaceAll => ~a.insertionPointGiven
    /\ Handle(a, DocData(doc), UpdateDocWithStyle_part002(DocData(doc), a))

MarkdownArgs(op, file) ==
  { [NoArgs EXCEPT !.op = op, !.file = file, !.tabId = t, !.markdown = m] :
      t \in TabIds, m \in Markdowns }

InsertMarkdownRequest ==
  \E a \in MarkdownArgs("insert-markdown-content", "part_002"),
     ra \in BOOLEAN, ip \in InsertionPointArgs :
    LET b == [a EXCEPT !.replaceAll = ra, !.insertionPointGiven = ip.given,
                       !.insertionPoint = ip.p]
    IN  /\ ra => ~ip.given
        /\ Handle(b, DocData(doc), InsertMarkdownContent(DocData(doc), b))

ConvertRequest ==
  \E t \in TabIds, s \in StartIndexes, e \in EndIndexes \ {0} :
    LET a == [NoArgs EXCEPT !.op = "convert-text-to-markdown-headings",
                            !.file = "part_002", !.tabId = t,
                            !.startIndex = s, !.endIndex = e]
    IN  Handle(a, DocData(doc), ConvertTextToMarkdownHeadings(DocData(doc), a))

\* get-text-style sends nothing: it answers from the fetched document
GetTextStyleRequest_server2 ==
  \E t \in TabIds, s \in StartIndexes, e \in EndIndexes :
    LET a == [NoArgs EXCEPT !.op = "get-text-style", !.file = "server2",
                            !.tabId = t, !.startIndex = s, !.endIndex = e]
        got == GetDocument(doc, t # <<>>)
        out == GetTextStyle_server2(got, a)
    IN  /\ pc = "idle"
        /\ req' = a
        /\ fetched' = got
        /\ calls' = <<Get>>
        /\ result' = IF out.error # "" THEN Error(out.error)
                     ELSE [Ok(0) EXCEPT !.found = out.found]
        /\ pc' = "done"
        /\ UNCHANGED doc

GetTextStyleRequest_part002 ==
  \E t \in TabIds, s \in StartIndexes, e \in EndIndexes :
    LET a == [NoArgs EXCEPT !.op = "get-text-style", !.file = "part_002",
                            !.tabId = t, !.startIndex = s, !.endIndex = e]
        got == DocData(doc)
        out == GetTextStyle_part002(got, a)
    IN  /\ pc = "idle"
        /\ req' = a
        /\ fetched' = got
        /\ calls' = <<Get>>
        /\ result' = IF out.error # "" THEN Error(out.error)
                     ELSE [Ok(0) EXCEPT !.found = out.found]
        /\ pc' = "done"
        /\ UNCHANGED doc

(***************************************************************************)
(* write-markdown-to-doc (part_001): two batches, each awaited              *)
(***************************************************************************)
\* after the clearing step: the insertion batch is sent when the decoder
\* produced requests, else the handler returns its success message
WriteMarkdownStep2(a, cs) ==
  LET markdownRequests == WriteMarkdownInsert(a)
  IN  IF markdownRequests # <<>>
      THEN /\ calls' = Append(cs, BatchUpdate(markdownRequests))
           /\ pc' = "awaitBatch"
           /\ result' = result
      ELSE /\ calls' = cs
           /\ pc' = "done"
           /\ result' = Ok(0)

WriteMarkdownRequest ==
  \E a \in MarkdownArgs("write-markdown-to-doc", "part_001") :
    LET got == DocData(doc)
        plan == WriteMarkdownClear(got, a)
    IN  /\ pc = "idle"
        /\ req' = a
        /\ fetched' = got
        /\ IF plan.error # ""
           THEN /\ pc' = "done"
                /\ calls' = <<Get>>
                /\ result' = Error(plan.error)
           ELSE IF plan.requests # <<>>
             THEN /\ pc' = "awaitDelete"
                  /\ calls' = <<Get, BatchUpdate(plan.requests)>>
                  /\ result' = result
             ELSE WriteMarkdownStep2(a, <<Get>>)
        /\ UNCHANGED doc

(***************************************************************************)
(* The outcome of the pending batchUpdate                                  *)
(***************************************************************************)
Pending == calls[Len(calls)]

SetStatus(cs, st) == [cs EXCEPT ![Len(cs)].status = st]

\* the service applies the batch; the handler returns its success message
BatchSucceeds ==
  /\ pc = "awaitBatch"
  /\ LET out == ApplyRequests(doc.tabs, Pending.requests)
     IN  /\ out.ok
         /\ doc' = [doc EXCEPT !.tabs = out.tabs]
  /\ calls' = SetStatus(calls, "ok")
  /\ result' = Ok(req.index)
  /\ pc' = "done"
  /\ UNCHANGED <<req, fetched>>

\* the service applies the clearing batch of write-markdown-to-doc; the
\* handler goes on to its second step
DeleteSucceeds ==
  /\ pc = "awaitDelete"
  /\ LET out == ApplyRequests(doc.tabs, Pending.requests)
     IN  /\ out.ok
         /\ doc' = [doc EXCEPT !.tabs = out.tabs]
  /\ WriteMarkdownStep2(req, SetStatus(calls, "ok"))
  /\ UNCHANGED <<req, fetched>>

\* a handler that sends a rejected batch once more
BatchFailsThenRetries ==
  /\ pc \in {"awaitBatch", "awaitDelete"}
  /\ IF Len(calls) < 3
     THEN /\ calls' = Append(SetStatus(calls, "failed"), BatchUpdate(Pending.requests))
          /\ UNCHANGED <<result, pc>>
     ELSE /\ calls' = SetStatus(calls, "failed")
          /\ result' = Error("RemoteRejected")
          /\ pc' = "done"
  /\ UNCHANGED <<doc, req, fetched>>

\* the call rejects (the service refuses the batch, or the transport fails):
\* the catch block of the handler returns the error
BatchFails ==
  /\ pc \in {"awaitBatch", "awaitDelete"}
  /\ calls' = SetStatus(calls, "failed")
  /\ result' = Error("RemoteRejected")
  /\ pc' = "done"
  /\ UNCHANGED <<doc, req, fetched>>

Tools ==
  { <<"insert-content-after-heading", "part_002">>,
    <<"replace-section-content", "part_002">>,
    <<"append-to-section", "part_002">>,
    <<"update-doc", "server">>, <<"update-doc", "part_002">>,
    <<"update-doc-with-style", "server">>,
    <<"update-doc-with-style", "server2">>,
    <<"update-doc-with-style", "part_002">>,
    <<"insert-markdown-content", "part_002">>,
    <<"convert-text-to-markdown-headings", "part_002">>,
    <<"get-text-style", "server2">>, <<"get-text-style", "part_002">>,
    <<"write-markdown-to-doc", "part_001">> }

\* documents.get rejects: the catch block returns the error, nothing is sent
GetFails ==
  /\ pc = "idle"
  /\ \E tool \in Tools :
       req' = [NoArgs EXCEPT !.op = tool[1], !.file = tool[2]]
  /\ calls' = <<[Get EXCEPT !.status = "failed"]>>
  /\ result' = Error("RemoteRejected")
  /\ pc' = "done"
  /\ UNCHANGED <<doc, fetched>>

Next ==
  \/ InsertAfterHeadingRequest
  \/ ReplaceSectionRequest
  \/ AppendToSectionRequest
  \/ UpdateDocRequest_server
  \/ UpdateDocRequest_part002
  \/ UpdateDocWithStyleRequest_server
  \/ UpdateDocWithStyleRequest_server2
  \/ UpdateDocWithStyleRequest_part002
  \/ InsertMarkdownRequest
  \/ ConvertRequest
  \/ GetTextStyleRequest_server2
  \/ GetTextStyleRequest_part002
  \/ WriteMarkdownRequest
  \/ BatchSucceeds
  \/ DeleteSucceeds
  \/ BatchFails
  \/ GetFails

Spec == Init /\ [][Next]_vars

(***************************************************************************)
(* Vocabulary of the properties: what the finished or pending request has  *)
(* sent, and the tree it was computed from.                                *)
(***************************************************************************)
\* the edit batches the request has issued, in order
Batches == SelectSeq(calls, LAMBDA c : c.kind = "batchUpdate")

\* the requests of all the batches, in order
RECURSIVE Flatten(_)
Flatten(bs) == IF bs = <<>> THEN <<>> ELSE Head(bs).requests \o Flatten(Tail(bs))

Emitted == Flatten(Batches)

Deletes == SelectSeq(Emitted, LAMBDA r : r.type = "deleteContentRange")
Inserts == SelectSeq(Emitted, LAMBDA r : r.type = "insertText")

\* the body the fetched document holds for the tab the request names, and
\* the offset just past its final newline
TargetContent == ResolveTargetBody(fetched, req.tabId).content
TreeEnd == LastElementEndIndex(TargetContent)

\* the headings of that body in document order, and the first that matches
FetchedHeadings == findHeadingsWithPositions(TargetContent)
StartHeading == FindHeading(FetchedHeadings, req.heading)

\* the end of the section of the k-th heading: the start of the heading that
\* follows it in document order, read as the set of offsets that count as
\* the document end (the final newline, or just past it) when none follows
SectionEnds(k) ==
  IF k < Len(FetchedHeadings) THEN {FetchedHeadings[k + 1].startIndex}
  ELSE {TreeEnd - 1, TreeEnd}

(***************************************************************************)
(* Section operations                                                      *)
(***************************************************************************)
ReplaceKeepingHeading ==
  /\ req.op = "replace-section-content"
  /\ req.preserveHeading
  /\ req.endHeading = <<>>
  /\ Batches # <<>>

\* C1: replace-section-content with preserveHeading and no endHeading deletes
\* nothing but the range from the end of the start heading to the start of
\* the heading that immediately follows it (or to the document end)
C1_DeleteIsExactlyTheSection ==
  ReplaceKeepingHeading =>
    \A i \in 1..Len(Deletes) :
      /\ Deletes[i].startIndex = FetchedHeadings[StartHeading].endIndex
      /\ Deletes[i].endIndex \in SectionEnds(StartHeading)

\* C2: append-to-section inserts at the start of the heading that follows the
\* matched heading, or at the document end when it is the last heading, and
\* never before the end of the matched heading
C2_AppendAtEndOfSection ==
  (req.op = "append-to-section" /\ Batches # <<>>) =>
    /\ Len(Inserts) = 1
    /\ Inserts[1].startIndex \in SectionEnds(StartHeading)
    /\ Inserts[1].startIndex >= FetchedHeadings[StartHeading].endIndex

HeadingOps ==
  {"insert-content-after-heading", "replace-section-content", "append-to-section"}

\* no heading of the fetched tree has the text, compared as the lookups do
Unmatched(text) ==
  \A i \in 1..Len(FetchedHeadings) : ~HeadingMatches(FetchedHeadings[i], text)

HeadingMissing ==
  \/ Unmatched(req.heading)
  \/ /\ req.op = "replace-section-content"
     /\ req.endHeading # <<>>
     /\ Unmatched(req.endHeading)

Fetched == calls # <<>> /\ calls[1].status = "ok"

\* C3: when the start heading (or the end heading, when one is given) matches
\* no heading of the fetched tree, the section operations return a not-found
\* error and send no edit batch
C3_HeadingNotFound ==
  (req.op \in HeadingOps /\ Fetched /\ HeadingMissing) =>
    /\ Batches = <<>>
    /\ pc = "done"
    /\ result.status = "error"
    /\ result.error = IF ResolveTargetBody(fetched, req.tabId).found
                      THEN "HeadingNotFound" ELSE "TabNotFound"

\* the end heading of a replace-section-content matches nothing although the
\* start heading, and so a heading to fall back to, exists
C3_Witness ==
  /\ req.op = "replace-section-content"
  /\ pc = "done"
  /\ Fetched
  /\ ~Unmatched(req.heading)
  /\ req.endHeading # <<>>
  /\ Unmatched(req.endHeading)
  /\ result.error = "HeadingNotFound"
  /\ Batches = <<>>

\* the start of the section of a replace-section-content: the end of the
\* start heading when the heading is kept, else its start
SectionStart ==
  IF req.preserveHeading THEN FetchedHeadings[StartHeading].endIndex
  ELSE FetchedHeadings[StartHeading].startIndex

\* the start of the first heading that matches the end heading
EndHeadingStart ==
  LET hits == {i \in 1..Len(FetchedHeadings) :
                 HeadingMatches(FetchedHeadings[i], req.endHeading)}
  IN  FetchedHeadings[CHOOSE i \in hits : \A j \in hits : i <= j].startIndex

\* C12: replace-section-content inserts at the section start (the end of the
\* start heading when preserveHeading, else its start) and deletes from
\* there; with an end heading the delete stops at that heading's start
C12_SectionBoundaries ==
  (req.op = "replace-section-content" /\ Batches # <<>>) =>
    /\ Len(Inserts) = 1
    /\ Inserts[1].startIndex = SectionStart
    /\ Len(Deletes) <= 1
    /\ \A i \in 1..Len(Deletes) : Deletes[i].startIndex = SectionStart
    /\ req.endHeading # <<>> =>
         /\ \A i \in 1..Len(Deletes) : Deletes[i].endIndex = EndHeadingStart
         /\ (Deletes # <<>>) = (EndHeadingStart > SectionStart)

\* a section from the start of its heading to an end heading further on was
\* replaced
C12_Witness ==
  /\ req.op = "replace-section-content"
  /\ pc = "done"
  /\ result.status = "ok"
  /\ ~req.preserveHeading
  /\ req.endHeading # <<>>
  /\ Deletes # <<>>
  /\ Deletes[1].startIndex = FetchedHeadings[StartHeading].startIndex
  /\ Deletes[1].endIndex > FetchedHeadings[StartHeading].endIndex

\* two titles are the same when they agree after lower-casing and trimming
SameTitle(x, y) == Trim(ToLowerCase(x)) = Trim(ToLowerCase(y))

\* the positions, in document order, of the headings with the requested title
TitleHits(text) ==
  {i \in 1..Len(FetchedHeadings) : SameTitle(FetchedHeadings[i].text, text)}

\* the heading with the requested title that starts first
FirstHit ==
  FetchedHeadings[CHOOSE i \in TitleHits(req.heading) :
    \A j \in TitleHits(req.heading) :
      FetchedHeadings[i].startIndex <= FetchedHeadings[j].startIndex]

\* where a section operation inserts when it works from heading h
InsertIndexFrom(h) ==
  IF req.op = "insert-content-after-heading" THEN h.endIndex
  ELSE IF req.op = "append-to-section"
    THEN SectionEnd(FetchedHeadings, h, TargetContent)
    ELSE IF req.preserveHeading THEN h.endIndex ELSE h.startIndex

TitleFound ==
  /\ req.op \in HeadingOps
  /\ Fetched
  /\ ResolveTargetBody(fetched, req.tabId).found
  /\ TitleHits(req.heading) # {}
  /\ (req.op = "replace-section-content" /\ req.endHeading # <<>>) =>
       TitleHits(req.endHeading) # {}

\* C13: the section operations find their heading by comparing titles after
\* lower-casing and trimming both sides, and among several headings with the
\* title they work from the one with the smallest startIndex
C13_FirstMatchIgnoringCaseAndSpace ==
  TitleFound =>
    /\ Batches # <<>>
    /\ Len(Inserts) = 1
    /\ Inserts[1].startIndex = InsertIndexFrom(FirstHit)
    /\ result.error # "HeadingNotFound"

\* two headings have the requested title, the first of them written in
\* another case, and the content went in after that first one
C13_Witness ==
  /\ req.op = "insert-content-after-heading"
  /\ pc = "done"
  /\ result.status = "ok"
  /\ TitleFound
  /\ Cardinality(TitleHits(req.heading)) = 2
  /\ FirstHit.text # req.heading
  /\ Inserts[1].startIndex = FirstHit.endIndex
  /\ \E j \in TitleHits(req.heading) :
       FetchedHeadings[j].endIndex > FirstHit.endIndex

(***************************************************************************)
(* Ranges of the deletes                                                   *)
(***************************************************************************)
\* the body of the fetched document a request is addressed to, by the tab
\* identifier it carries; none when no tab has the identifier
AddressedTabs(r) ==
  LET allTabs == collectAllTabs(fetched.tabs)
  IN  {i \in 1..Len(allTabs) : allTabs[i].tabId = r.tabId}

Addressed(r) == r.tabId = <<>> \/ AddressedTabs(r) # {}

AddressedEnd(r) ==
  IF r.tabId = <<>> THEN LastElementEndIndex(fetched.body)
  ELSE LastElementEndIndex(
         collectAllTabs(fetched.tabs)[CHOOSE i \in AddressedTabs(r) : TRUE].body)

WholeDocumentReplace ==
  \/ req.op = "write-markdown-to-doc"
  \/ /\ req.op \in {"update-doc", "update-doc-with-style", "insert-markdown-content"}
     /\ req.replaceAll

\* C4: a whole-document replace never deletes the final newline: each of its
\* deletes ends at or before the offset of the final newline of the body
C4_TrailingNewlineKept ==
  WholeDocumentReplace =>
    \A i \in 1..Len(Deletes) :
      Addressed(Deletes[i]) => Deletes[i].endIndex <= AddressedEnd(Deletes[i]) - 1

\* C5: no operation emits a delete whose start is at or after its end
C5_NoEmptyDelete ==
  \A i \in 1..Len(Deletes) : Deletes[i].startIndex < Deletes[i].endIndex

\* a replace-section-content whose two headings are found, the end heading
\* at or before the start of the section
ReversedSection ==
  /\ req.op = "replace-section-content"
  /\ Fetched
  /\ ResolveTargetBody(fetched, req.tabId).found
  /\ req.endHeading # <<>>
  /\ ~HeadingMissing
  /\ FetchedHeadings[FindHeading(FetchedHeadings, req.endHeading)].startIndex
       <= FetchedHeadings[StartHeading].startIndex

\* a convert-text-to-markdown-headings that finds a heading pattern to
\* convert in a range that is empty, reversed or not within the body
RangeOutOfTree ==
  /\ req.op = "convert-text-to-markdown-headings"
  /\ Fetched
  /\ ResolveTargetBody(fetched, req.tabId).found
  /\ LET elements == parseMarkdownContent(
                       extractTextFromRange(TargetContent, req.startIndex,
                                            req.endIndex))
     IN  \E i \in 1..Len(elements) : elements[i].type = "heading"
  /\ \/ req.startIndex >= req.endIndex
     \/ req.startIndex < 1
     \/ req.endIndex > TreeEnd

\* C6: an operation whose delete range would be empty, reversed or outside
\* the tree returns an error and sends no edit batch
C6_InvalidRangeBeforeEdit ==
  (ReversedSection \/ RangeOutOfTree) =>
    /\ Batches = <<>>
    /\ pc = "done"
    /\ result.status = "error"

(***************************************************************************)
(* Tabs and insertion points                                               *)
(***************************************************************************)
\* the tab identifier of the request names no tab of the fetched document,
\* by identifier or by title
NoSuchTab ==
  /\ req.tabId # <<>>
  /\ \A i \in 1..Len(collectAllTabs(fetched.tabs)) :
       ~TabMatches(collectAllTabs(fetched.tabs)[i], req.tabId)

\* C7: a tab identifier that resolves to no tab of the fetched document,
\* also when the document reports no tabs, makes the operation return a
\* not-found error (of whatever kind) and send no edit
C7_TabNotFound ==
  (Fetched /\ NoSuchTab) =>
    /\ Batches = <<>>
    /\ pc = "done"
    /\ result.status = "error"
    /\ result.error \in {"TabNotFound", "HeadingNotFound"}

InsertionPointCase ==
  /\ req.op \in {"update-doc-with-style", "insert-markdown-content"}
  /\ ~req.replaceAll
  /\ req.insertionPointGiven
  /\ Batches # <<>>
  /\ Inserts # <<>>
  /\ Addressed(Inserts[1])

\* min(max(p, base), treeEnd), the tree end read as the offset of the final
\* newline or the one just past it
ClampedTo(p, r) ==
  {Min(Max(p, 1), treeEnd) : treeEnd \in {AddressedEnd(r) - 1, AddressedEnd(r)}}

\* C8: with replaceAll false, the text is inserted at the insertion point that
\* was supplied, clamped to the base offset and the end of the tree
C8_InsertionPointClamped ==
  InsertionPointCase =>
    Inserts[1].startIndex \in ClampedTo(req.insertionPoint, Inserts[1])

(***************************************************************************)
(* write-markdown-to-doc                                                   *)
(***************************************************************************)
HasDelete(c) == \E i \in 1..Len(c.requests) : c.requests[i].type = "deleteContentRange"
HasInsert(c) == \E i \in 1..Len(c.requests) : c.requests[i].type = "insertText"

\* C9: write-markdown-to-doc fetches, then sends the delete batch (only when
\* the computed length exceeds the base offset), then the insert batch; a
\* call is issued only when the calls before it have completed, and no batch
\* holds both a delete and an insert
C9_FetchDeleteInsertInOrder ==
  req.op = "write-markdown-to-doc" =>
    /\ Len(calls) <= 3
    /\ \A i \in 1..Len(calls) :
         /\ (calls[i].kind = "get") = (i = 1)
         /\ i < Len(calls) => calls[i].status = "ok"
         /\ ~(HasDelete(calls[i]) /\ HasInsert(calls[i]))
         /\ HasDelete(calls[i]) =>
              /\ i = 2
              /\ calls[i].requests =
                   <<DeleteContentRange(1, TextLength(TargetContent, 1), req.tabId)>>
              /\ TextLength(TargetContent, 1) > 1
         /\ HasInsert(calls[i]) =>
              /\ i = Len(calls)
              /\ (i = 3) = (TextLength(TargetContent, 1) > 1)

\* both batches sent and applied, the delete before the insert
C9_Witness ==
  /\ req.op = "write-markdown-to-doc"
  /\ pc = "done"
  /\ result.status = "ok"
  /\ Len(calls) = 3
  /\ HasDelete(calls[2])
  /\ HasInsert(calls[3])
  /\ calls[3].status = "ok"

\* the body of the request's tab as the document holds it now
CurrentContent == ResolveTargetBody(DocData(doc), req.tabId).content

\* C10: a failed remote call is the last call of its request, which returns
\* an error; when the insert batch of write-markdown-to-doc fails after its
\* delete batch was applied, the body stays cleared
C10_FailureIsTerminal ==
  \A i \in 1..Len(calls) :
    calls[i].status = "failed" =>
      /\ i = Len(calls)
      /\ pc = "done"
      /\ result.status = "error"
      /\ (req.op = "write-markdown-to-doc" /\ i = 3) =>
           Len(FlatBody(CurrentContent)) = 1

\* the delete batch was applied and the insert batch failed
C10_Witness ==
  /\ req.op = "write-markdown-to-doc"
  /\ pc = "done"
  /\ Len(calls) = 3
  /\ calls[2].status = "ok"
  /\ HasDelete(calls[2])
  /\ calls[3].status = "failed"
  /\ result.status = "error"
  /\ Len(FlatBody(TargetContent)) > 1

(***************************************************************************)
(* Two concurrent requests on one document.  Each handler runs from its    *)
(* fetch to the call of batchUpdate without suspending; the two awaits are *)
(* the points where the other request's calls can reach the service.  In   *)
(* this specification pc, req, fetched, calls and result hold one value    *)
(* per request.                                                            *)
(***************************************************************************)
Requests == {"A", "B"}

\* the batch a section tool computes from the document it fetched
SectionPlan(data, a) ==
  IF a.op = "insert-content-after-heading" THEN InsertContentAfterHeading(data, a)
  ELSE AppendToSection(data, a)

RaceInit ==
  /\ doc \in { [tabs |-> <<Tab(MainTabId, <<>>, b, <<>>)>>, reportsTabs |-> TRUE] :
                 b \in Bodies(MaxParas) }
  /\ pc = [r \in Requests |-> "idle"]
  /\ req = [r \in Requests |-> NoArgs]
  /\ fetched = [r \in Requests |-> NoData]
  /\ calls = [r \in Requests |-> <<>>]
  /\ result = [r \in Requests |-> [status |-> "none", error |-> "", index |-> 0,
                                   boundary |-> 0]]

\* request r fetches the document, resolves its heading and calls batchUpdate
RaceStart(r) ==
  \E op \in {"insert-content-after-heading", "append-to-section"},
     h \in HeadingTexts, c \in Contents :
    LET a == [NoArgs EXCEPT !.op = op, !.file = "part_002", !.heading = h,
                            !.content = c]
        got == DocData(doc)
        plan == SectionPlan(got, a)
    IN  /\ pc[r] = "idle"
        /\ req' = [req EXCEPT ![r] = [a EXCEPT !.index = plan.index]]
        /\ fetched' = [fetched EXCEPT ![r] = got]
        /\ IF plan.error # ""
           THEN /\ pc' = [pc EXCEPT ![r] = "done"]
                /\ calls' = [calls EXCEPT ![r] = <<Get>>]
                /\ result' = [result EXCEPT ![r].status = "error",
                                            ![r].error = plan.error]
           ELSE /\ pc' = [pc EXCEPT ![r] = "awaitBatch"]
                /\ calls' = [calls EXCEPT ![r] = <<Get, BatchUpdate(plan.requests)>>]
                /\ result' = result
        /\ UNCHANGED doc

\* a handler that fetches again when its batch reaches a document that is no
\* longer the one it fetched, and sends the batch computed from the new tree
RaceBatchSucceedsIfFresh(r) ==
  /\ pc[r] = "awaitBatch"
  /\ IF fetched[r] = DocData(doc)
     THEN LET out == ApplyRequests(doc.tabs, calls[r][Len(calls[r])].requests)
          IN  /\ out.ok
              /\ doc' = [doc EXCEPT !.tabs = out.tabs]
              /\ calls' = [calls EXCEPT ![r] = SetStatus(calls[r], "ok")]
              /\ result' = [result EXCEPT ![r].status = "ok", ![r].index = req[r].index,
                                          ![r].boundary = req[r].index]
              /\ pc' = [pc EXCEPT ![r] = "done"]
              /\ UNCHANGED <<req, fetched>>
     ELSE LET plan == SectionPlan(DocData(doc), req[r])
          IN  /\ plan.error = ""
              /\ calls' = [calls EXCEPT ![r] =
                             <<Get, Get, BatchUpdate(plan.requests)>>]
              /\ fetched' = [fetched EXCEPT ![r] = DocData(doc)]
              /\ req' = [req EXCEPT ![r].index = plan.index]
              /\ UNCHANGED <<doc, pc, result>>

\* the service applies the pending batch of r to the document as it is now.
\* boundary records, for the properties, the index the same request would
\* resolve on the document the batch is applied to.
RaceBatchSucceeds(r) ==
  /\ pc[r] = "awaitBatch"
  /\ LET out == ApplyRequests(doc.tabs, calls[r][Len(calls[r])].requests)
     IN  /\ out.ok
         /\ doc' = [doc EXCEPT !.tabs = out.tabs]
  /\ calls' = [calls EXCEPT ![r] = SetStatus(calls[r], "ok")]
  /\ result' = [result EXCEPT ![r].status = "ok", ![r].index = req[r].index,
                              ![r].boundary = SectionPlan(DocData(doc), req[r]).index]
  /\ pc' = [pc EXCEPT ![r] = "done"]
  /\ UNCHANGED <<req, fetched>>

RaceBatchFails(r) ==
  /\ pc[r] = "awaitBatch"
  /\ calls' = [calls EXCEPT ![r] = SetStatus(calls[r], "failed")]
  /\ result' = [result EXCEPT ![r].status = "error", ![r].error = "RemoteRejected"]
  /\ pc' = [pc EXCEPT ![r] = "done"]
  /\ UNCHANGED <<doc, req, fetched>>

RaceNext ==
  \E r \in Requests :
    \/ RaceStart(r)
    \/ RaceBatchSucceeds(r)
    \/ RaceBatchFails(r)

RaceSpec == RaceInit /\ [][RaceNext]_vars

\* C11: a request fetches once, and the batch it sends is the one computed
\* from that fetch, whatever the other request has done to the document
\* since; the service applies it without an error
C11_BatchFromOwnSnapshot ==
  \A r \in Requests :
    /\ Len(SelectSeq(calls[r], LAMBDA c : c.kind = "get")) <= 1
    /\ Len(calls[r]) = 2 =>
         calls[r][2].requests = SectionPlan(fetched[r], req[r]).requests
    /\ result[r].status = "ok" => result[r].index = SectionPlan(fetched[r], req[r]).index

\* fetch A, fetch B, apply A, apply B: both requests succeed, and B's text was
\* inserted at an index that was no longer the boundary of its section
C11_Witness ==
  /\ result["A"].status = "ok"
  /\ fetched["A"] = fetched["B"]
  /\ fetched["B"] # DocData(doc)
  /\ result["B"].status = "ok"
  /\ result["B"].error = ""
  /\ result["B"].index # result["B"].boundary

(***************************************************************************)
(* The tree walks on their own.  The tree is any list of up to MaxElems    *)
(* structural elements: heading and normal paragraphs, a paragraph that    *)
(* holds a page break, tables (one of them nested in a cell of another), a *)
(* table of contents and a section break.  Every paragraph ends with the   *)
(* newline the service gives it.  Each step runs one walk of the source    *)
(* over the tree and keeps what it returned.                               *)
(***************************************************************************)
MaxElems == 3

TreeShapes ==
  LET cell == <<Paragraph("NORMAL_TEXT", <<"c", "\n">>)>>
      table == [kind |-> "table", tableRows |-> <<<<cell, cell>>>>]
      nested == [kind |-> "table", tableRows |-> <<<<cell \o <<table>>>>>>]
      pageBreak == [kind |-> "paragraph", namedStyleType |-> "NORMAL_TEXT",
                    headingId |-> "",
                    elements |-> <<[kind |-> "pageBreak"], TextRun(<<"\n">>)>>]
  IN  { Paragraph("HEADING_1", <<"a", "\n">>),
        Paragraph("NORMAL_TEXT", <<"x", "y", "\n">>),
        pageBreak, table, nested,
        [kind |-> "tableOfContents"], [kind |-> "sectionBreak"] }

Trees == UNION {[1..k -> TreeShapes] : k \in 1..MaxElems}

NoWalk == [walk |-> "", text |-> <<>>, headings |-> <<>>, index |-> 0]

TreeInit ==
  /\ doc \in Trees
  /\ pc = "idle"
  /\ req = NoArgs
  /\ fetched = NoData
  /\ calls = <<>>
  /\ result = NoWalk

\* one walk over the tree, from offset 1 as the handlers start it
Walk(name, out) ==
  /\ pc = "idle"
  /\ pc' = "done"
  /\ result' = [NoWalk EXCEPT !.walk = name, !.text = out.text,
                              !.headings = out.headings, !.index = out.index]
  /\ UNCHANGED <<doc, req, fetched, calls>>

ExtractTextWalk ==
  Walk("extractTextFromContent",
       [NoWalk EXCEPT !.text = extractTextFromContent(doc)])

FindHeadingsWalk ==
  Walk("findHeadingsWithPositions",
       [NoWalk EXCEPT !.headings = findHeadingsWithPositions(doc)])

DocumentLengthWalk ==
  Walk("traverseContent", [NoWalk EXCEPT !.index = traverseContent(doc, 1)])

TextStyleWalk ==
  Walk("getTextStyle",
       [NoWalk EXCEPT !.index = StyleTraverse(doc, 1, 1, 2).index])

TreeNext ==
  \/ ExtractTextWalk
  \/ FindHeadingsWalk
  \/ DocumentLengthWalk
  \/ TextStyleWalk

TreeSpec == TreeInit /\ [][TreeNext]_vars

\* the headings the indexer returned, and the offset its walk ends at: 1 plus
\* the text it counted
Found == result.headings
WalkEnd == 1 + Len(extractTextFromContent(doc))

Ordered ==
  /\ \A i \in 1..Len(Found) : Found[i].startIndex < Found[i].endIndex
  /\ \A i \in 1..(Len(Found) - 1) :
       /\ Found[i].startIndex < Found[i + 1].startIndex
       /\ Found[i].endIndex <= Found[i + 1].startIndex

\* the section of the i-th heading, as a set of offsets
SectionOf(i) ==
  {x \in 1..WalkEnd :
     /\ Found[i].endIndex <= x
     /\ x < (IF i < Len(Found) THEN Found[i + 1].startIndex ELSE WalkEnd)}

SectionsDisjoint ==
  \A i, j \in 1..Len(Found) : i # j => SectionOf(i) \cap SectionOf(j) = {}

\* the offsets from the end of the first heading to the end of the walk
AfterFirstHeading == {x \in 1..WalkEnd : Found[1].endIndex <= x /\ x < WalkEnd}

\* the offsets of the lines of the headings after the first
LaterHeadingLines ==
  UNION {Found[i].startIndex..(Found[i].endIndex - 1) : i \in 2..Len(Found)}

HeadingsIndexed == result.walk = "findHeadingsWithPositions" /\ Found # <<>>

\* C14 as stated: the headings are in document order with startIndex <
\* endIndex <= the next startIndex, and the sections [endIndex, next
\* startIndex) are pairwise disjoint and by themselves cover everything from
\* the end of the first heading to the document end
C14_SectionsCoverEverything ==
  HeadingsIndexed =>
    /\ Ordered
    /\ SectionsDisjoint
    /\ UNION {SectionOf(i) : i \in 1..Len(Found)} = AfterFirstHeading

\* C14: the headings are in document order with startIndex < endIndex <= the
\* next startIndex; the sections [endIndex, next startIndex) are pairwise
\* disjoint and, together with the lines of the headings after the first,
\* cover everything from the end of the first heading to the document end
C14_SectionsAndHeadingsPartition ==
  HeadingsIndexed =>
    /\ Ordered
    /\ SectionsDisjoint
    /\ \A i \in 1..Len(Found) : SectionOf(i) \cap LaterHeadingLines = {}
    /\ UNION {SectionOf(i) : i \in 1..Len(Found)} \cup LaterHeadingLines
         = AfterFirstHeading

\* two headings with a table between them were indexed
C14_Witness ==
  /\ HeadingsIndexed
  /\ Len(Found) = 2
  /\ Found[1].endIndex < Found[2].startIndex
  /\ doc[2].kind = "table"

\* the offsets a tree takes up: the length of every text run, one for every
\* other paragraph element and for every structural element that is neither
\* a paragraph nor a table, and the cells of a table counted once
RECURSIVE Units(_)
Units(content) ==
  IF content = <<>> THEN 0
  ELSE LET el == Head(content)
           runs == [i \in 1..Len(el.elements) |->
                      IF el.elements[i].kind = "textRun"
                      THEN el.elements[i].content ELSE <<"?">>]
       IN  (IF el.kind = "paragraph" THEN SumLen(runs)
            ELSE IF el.kind = "table" THEN Units(TableCellContents(el))
            ELSE 1)
           + Units(Tail(content))

\* C15: every walk ends at its start offset plus the units of the tree, and
\* the heading indexer places each heading at 1 plus the units of what
\* precedes it and ends it the units of its paragraph further
C15_WalksCountEveryUnit ==
  /\ result.walk = "extractTextFromContent" => Len(result.text) = Units(doc)
  /\ result.walk \in {"traverseContent", "getTextStyle"} =>
       result.index = 1 + Units(doc)
  /\ result.walk = "findHeadingsWithPositions" =>
       \A k \in 1..Len(doc) :
         (doc[k].kind = "paragraph" /\ doc[k].headingId # "") =>
           \E i \in 1..Len(Found) :
             /\ Found[i].startIndex = 1 + Units(SubSeq(doc, 1, k - 1))
             /\ Found[i].endIndex = 1 + Units(SubSeq(doc, 1, k))

(***************************************************************************)
(* Markdown encoder (part_001)                                             *)
(***************************************************************************)
\* markdown.replace(/\n{3,}/g, '\n\n'): every run of three or more newlines
\* becomes two
RECURSIVE CollapseNewlines(_)
CollapseNewlines(s) ==
  IF s = <<>> THEN <<>>
  ELSE LET n == RunOf(s, 1, "\n")
       IN  IF n >= 3 THEN <<"\n", "\n">> \o CollapseNewlines(SubSeq(s, n + 1, Len(s)))
           ELSE <<Head(s)>> \o CollapseNewlines(Tail(s))

\* an encoder that writes a heading as it writes any other paragraph
RECURSIVE traverseWithoutHeadings(_)
traverseWithoutHeadings(content) ==
  IF content = <<>> THEN <<>>
  ELSE (IF Head(content).kind = "paragraph"
           /\ Trim(RunsText(Head(content).elements)) # <<>>
        THEN Trim(RunsText(Head(content).elements)) \o <<"\n", "\n">>
        ELSE <<>>)
       \o traverseWithoutHeadings(Tail(content))

\* traverseDocContent: one block per paragraph, a placeholder comment for a
\* table and for a table of contents, nothing for any other element
RECURSIVE traverseDocContent(_)
traverseDocContent(content) ==
  IF content = <<>> THEN <<>>
  ELSE LET element == Head(content)
           paragraphText == RunsText(element.elements)
           level ==
             CASE element.namedStyleType = "HEADING_1" -> 1
               [] element.namedStyleType = "HEADING_2" -> 2
               [] element.namedStyleType = "HEADING_3" -> 3
               [] element.namedStyleType = "HEADING_4" -> 4
               [] element.namedStyleType = "HEADING_5" -> 5
               [] element.namedStyleType = "HEADING_6" -> 6
               [] OTHER -> 0
           comment(words) == <<"<", "!", "-", "-", " ">> \o words
                             \o <<" ", "-", "-", ">", "\n", "\n">>
       IN  (IF element.kind = "paragraph"
            THEN IF level # 0
                 THEN [i \in 1..level |-> "#"] \o <<" ">> \o Trim(paragraphText)
                      \o <<"\n", "\n">>
                 ELSE IF Trim(paragraphText) # <<>>
                   THEN Trim(paragraphText) \o <<"\n", "\n">>
                   ELSE <<>>
            ELSE IF element.kind = "table"
              THEN comment(<<"T", "a", "b", "l", "e", " ",
                             "c", "o", "n", "t", "e", "n", "t">>)
              ELSE IF element.kind = "tableOfContents"
                THEN comment(<<"T", "a", "b", "l", "e", " ", "o", "f", " ",
                               "C", "o", "n", "t", "e", "n", "t", "s">>)
                ELSE <<>>)
           \o traverseDocContent(Tail(content))

\* convertDocToMarkdown, given docContent.body.content (an absent body gives
\* the empty string, as an empty one does)
convertDocToMarkdown(content) == Trim(CollapseNewlines(traverseDocContent(content)))

(***************************************************************************)
(* The Markdown functions on their own.  A run starts from a Markdown text *)
(* of up to MaxText characters (or one of a few longer ones), or from a    *)
(* tree of up to MaxBlocks elements that the encoder turns into the text;  *)
(* one of the decoders then runs on the text.                              *)
(***************************************************************************)
MaxText == 4
MaxBlocks == 2

MdTexts ==
  UNION {[1..k -> {"a", "*", "~", "#", " ", "\n"}] : k \in 0..MaxText}
  \cup { <<"*", "*", "a", "*", "b", "*", "c", "*", "*">>,
         <<"a", " ", "*", "*", "b", "*", "*", " ", "c">>,
         <<"^", "a", "^", "~", "~", "b", "~", "~">>,
         <<"*", "*", "a", "*", "*", "*", "b", "*">>,
         <<"#", "#", "#", "#", "#", "#", "#", " ", "a">>,
         <<"*", "^", "a", "*", "^">>,
         <<"~", "~", "*", "a", "*", "~", "~">> }

MdTrees ==
  LET styles == {"HEADING_1", "HEADING_2", "HEADING_3", "HEADING_4",
                 "HEADING_5", "HEADING_6", "NORMAL_TEXT", "TITLE"}
      texts == {<<"\n">>, <<"a", "\n">>, <<" ", "a", " ", "\n">>,
                <<"#", " ", "a", "\n">>, <<"*", "a", "*", "\n">>}
      shapes == {Paragraph(st, t) : st \in styles, t \in texts}
                \cup {[kind |-> "table", tableRows |-> <<>>],
                      [kind |-> "tableOfContents"]}
  IN  UNION {[1..k -> shapes] : k \in 1..MaxBlocks}

NoOutput == [fn |-> "", segments |-> <<>>, requests |-> <<>>, elements |-> <<>>]

MdInit ==
  /\ \/ doc = <<>> /\ pc = "text" /\ \E t \in MdTexts : req = [NoArgs EXCEPT !.markdown = t]
     \/ doc \in MdTrees /\ pc = "tree" /\ req = NoArgs
  /\ fetched = NoData
  /\ calls = <<>>
  /\ result = NoOutput

\* read-doc-as-markdown's conversion of the tree
Encode ==
  /\ pc = "tree"
  /\ pc' = "text"
  /\ req' = [req EXCEPT !.markdown = convertDocToMarkdown(doc)]
  /\ UNCHANGED <<doc, fetched, calls, result>>

Decode(out) ==
  /\ pc = "text"
  /\ pc' = "done"
  /\ result' = out
  /\ UNCHANGED <<doc, req, fetched, calls>>

ParseInline ==
  Decode([NoOutput EXCEPT !.fn = "parseInlineFormatting",
                          !.segments = parseInlineFormatting(req.markdown)])

DecodeRequests ==
  Decode([NoOutput EXCEPT !.fn = "parseMarkdownToDocRequests",
            !.requests = parseMarkdownToDocRequests(req.markdown, 1, <<>>)])

\* parseMarkdownContent and the element loop of insert-markdown-content
DecodeElements ==
  LET elements == parseMarkdownContent(req.markdown)
  IN  Decode([NoOutput EXCEPT !.fn = "parseMarkdownContent",
                              !.elements = elements,
                              !.requests = ElementRequests(elements, 1, <<>>)])

MdNext ==
  \/ Encode
  \/ ParseInline
  \/ DecodeRequests
  \/ DecodeElements

MdSpec == MdInit /\ [][MdNext]_vars

(***************************************************************************)
(* Inline formatting                                                       *)
(***************************************************************************)
BoldAroundItalic == <<"*", "*", "a", "*", "b", "*", "c", "*", "*">>

\* C16: parseInlineFormatting of a bold span that encloses an italic span,
\* "**a*b*c**", gives a single bold segment and no italic segment
C16_BoldSpanWins ==
  (result.fn = "parseInlineFormatting" /\ req.markdown = BoldAroundItalic) =>
    /\ Len(result.segments) = 1
    /\ result.segments[1].style = "bold"
    /\ \A i \in 1..Len(result.segments) : result.segments[i].style # "italic"

\* the matches of the four patterns in the text, and those accepted
Candidates == AllMatches(req.markdown)
Accepted == ValidMatches(SortByStart(Candidates), 1)

\* the positions of the opening and closing markers of a match
MarkersOf(m) ==
  LET n == (m.end - m.start - Len(m.text)) \div 2
  IN  (m.start..(m.start + n - 1)) \cup ((m.end - n)..(m.end - 1))

\* the text from position j on without the characters at the positions marks
RECURSIVE Without(_, _, _)
Without(text, j, marks) ==
  IF j > Len(text) THEN <<>>
  ELSE (IF j \in marks THEN <<>> ELSE <<text[j]>>) \o Without(text, j + 1, marks)

Styled == SelectSeq(result.segments, LAMBDA g : g.style # "")

\* C17: the accepted matches are ordered by start and do not overlap; the
\* styled segments are the inner texts of the accepted matches in order, the
\* unstyled ones the non-empty gaps between them, and together they spell
\* the input without the markers of the accepted matches; "a **b** c" gives
\* "a ", bold "b", " c"; an input without a match gives itself, unstyled
C17_SegmentsOfAcceptedMatches ==
  result.fn = "parseInlineFormatting" =>
    /\ \A i \in 1..(Len(Accepted) - 1) : Accepted[i].end <= Accepted[i + 1].start
    /\ Styled = [i \in 1..Len(Accepted) |->
                   [text |-> Accepted[i].text, style |-> Accepted[i].style]]
    /\ Accepted # <<>> =>
         /\ \A i \in 1..Len(result.segments) : result.segments[i].text # <<>>
         /\ \A i \in 1..(Len(result.segments) - 1) :
              result.segments[i].style # "" \/ result.segments[i + 1].style # ""
    /\ Concat([i \in 1..Len(result.segments) |-> result.segments[i].text])
         = Without(req.markdown, 1,
                   UNION {MarkersOf(Accepted[i]) : i \in 1..Len(Accepted)})
    /\ req.markdown = <<"a", " ", "*", "*", "b", "*", "*", " ", "c">> =>
         result.segments = << [text |-> <<"a", " ">>, style |-> ""],
                              [text |-> <<"b">>, style |-> "bold"],
                              [text |-> <<" ", "c">>, style |-> ""] >>
    /\ Candidates = <<>> =>
         result.segments = <<[text |-> req.markdown, style |-> ""]>>

\* "a **b** c" was split at its one bold span
C17_Witness ==
  /\ result.fn = "parseInlineFormatting"
  /\ req.markdown = <<"a", " ", "*", "*", "b", "*", "*", " ", "c">>
  /\ Len(Accepted) = 1
  /\ Len(result.segments) = 3
  /\ result.segments[2] = [text |-> <<"b">>, style |-> "bold"]

(***************************************************************************)
(* Encoding and decoding                                                   *)
(***************************************************************************)
\* the blocks of the decoded requests (one updateParagraphStyle per block)
\* and the text they insert
Blocks == SelectSeq(result.requests, LAMBDA r : r.type = "updateParagraphStyle")
InsertedText ==
  Concat([i \in 1..Len(result.requests) |->
            IF result.requests[i].type = "insertText"
            THEN result.requests[i].text ELSE <<>>])

\* a tree of one normal paragraph was encoded and the result decoded
RoundTripped ==
  /\ Len(doc) = 1
  /\ doc[1].kind = "paragraph"
  /\ doc[1].namedStyleType = "NORMAL_TEXT"
  /\ result.fn = "parseMarkdownToDocRequests"

\* C18: the Markdown of a tree of one normal paragraph decodes to exactly one
\* NORMAL_TEXT block whose text is the trimmed text of the paragraph
C18_RoundTripOfOneParagraph ==
  RoundTripped =>
    /\ Len(Blocks) = 1
    /\ Blocks[1].style = "NORMAL_TEXT"
    /\ InsertedText = Trim(RunsText(doc[1].elements)) \o <<"\n">>

\* C19: whatever the text, also the empty one and one of blank lines only,
\* each decoder returns at least one block, so that at least one insertText
\* is written: parseMarkdownContent at least one element, and
\* parseMarkdownToDocRequests at least one insertText request
C19_DecoderYieldsABlock ==
  /\ result.fn = "parseMarkdownContent" => result.elements # <<>>
  /\ result.fn = "parseMarkdownToDocRequests" =>
       \E i \in 1..Len(result.requests) : result.requests[i].type = "insertText"

\* the level of a heading style, 0 for any other style
HeadingLevel(style) ==
  IF style \in {"HEADING_1", "HEADING_2", "HEADING_3", "HEADING_4",
                "HEADING_5", "HEADING_6"}
  THEN CHOOSE n \in 1..6 : style = HeadingStyle(n)
  ELSE 0

\* what the paragraph is to be written as: for a heading of level n the line
\* of n '#', a space and the trimmed text, and a blank line; for any other
\* paragraph the trimmed text and a blank line, or nothing when it is empty
BlockOf(p) ==
  LET t == Trim(RunsText(p.elements))
      n == HeadingLevel(p.namedStyleType)
  IN  IF n # 0 THEN [i \in 1..n |-> "#"] \o <<" ">> \o t \o <<"\n", "\n">>
      ELSE IF t # <<>> THEN t \o <<"\n", "\n">>
      ELSE <<>>

\* a tree of paragraphs has been encoded
ParagraphsEncoded ==
  /\ doc # <<>>
  /\ pc # "tree"
  /\ \A k \in 1..Len(doc) : doc[k].kind = "paragraph"

\* C20: the Markdown of a tree of paragraphs is, block after block, for a
\* HEADING_n paragraph the line of n '#', one space and the trimmed text
\* followed by a blank line, and for any other paragraph the trimmed text
\* followed by a blank line when it is not empty; white space at the two ends
\* of the whole is dropped
C20_HeadingMapping ==
  ParagraphsEncoded =>
    req.markdown = Trim(CollapseNewlines(Concat([k \in 1..Len(doc) |-> BlockOf(doc[k])])))

\* a HEADING_2 paragraph " a " followed by a paragraph was written as "## a",
\* a blank line and the paragraph
C20_Witness ==
  /\ pc = "text"
  /\ Len(doc) = 2
  /\ \A k \in 1..2 : doc[k].kind = "paragraph"
  /\ doc[1].namedStyleType = "HEADING_2"
  /\ RunsText(doc[1].elements) = <<" ", "a", " ", "\n">>
  /\ doc[2].namedStyleType = "NORMAL_TEXT"
  /\ req.markdown = <<"#", "#", " ", "a", "\n", "\n", "a">>

(***************************************************************************)
(* The insertion batch of the decoders                                     *)
(***************************************************************************)
Decoded == result.fn \in {"parseMarkdownToDocRequests", "parseMarkdownContent"}

\* the insertText requests of the batch, in order
BatchInserts == SelectSeq(result.requests, LAMBDA r : r.type = "insertText")

\* C21: the index of every insertText of the batch is the start index (1
\* here) plus the length of the texts of the insertText requests before it
C21_InsertsAreContiguous ==
  Decoded =>
    \A i \in 1..Len(BatchInserts) :
      BatchInserts[i].startIndex
        = 1 + SumLen([j \in 1..(i - 1) |-> BatchInserts[j].text])

\* "a **b** c" was decoded into three inserts, at 1, 3 and 4
C21_Witness ==
  /\ result.fn = "parseMarkdownToDocRequests"
  /\ req.markdown = <<"a", " ", "*", "*", "b", "*", "*", " ", "c">>
  /\ Len(BatchInserts) = 3
  /\ BatchInserts[2].startIndex = 3
  /\ BatchInserts[3].startIndex = 4

\* the positions in the batch of the insertText requests that write into
\* the range of the request at position p
InsertsInto(p) ==
  {q \in 1..Len(result.requests) :
     /\ result.requests[q].type = "insertText"
     /\ result.requests[p].startIndex <= result.requests[q].startIndex
     /\ result.requests[q].startIndex < result.requests[p].endIndex}

NonBlankLines ==
  SelectSeq(Split(req.markdown), LAMBDA line : Trim(line) # <<>>)

\* C22: the batch holds one updateParagraphStyle for each block; it comes
\* after every insertText of the block, starts where the first segment was
\* inserted and spans the texts of the block's segments and the newline
C22_ParagraphStyleAfterItsBlock ==
  result.fn = "parseMarkdownToDocRequests" =>
    /\ Len(SelectSeq(result.requests, LAMBDA r : r.type = "updateParagraphStyle"))
         = Len(NonBlankLines)
    /\ \A p \in 1..Len(result.requests) :
         result.requests[p].type = "updateParagraphStyle" =>
           /\ \E q \in InsertsInto(p) :
                result.requests[q].startIndex = result.requests[p].startIndex
           /\ result.requests[p].endIndex - result.requests[p].startIndex
                = SumLen([q \in 1..Len(result.requests) |->
                            IF q \in InsertsInto(p) THEN result.requests[q].text
                            ELSE <<>>])
           /\ \A q \in InsertsInto(p) : q < p

\* the end of a document that held only its final newline (as the clearing
\* step of write-markdown-to-doc leaves it) once the requests before
\* position p of the batch have been applied to it
DocumentEndBefore(p) ==
  2 + SumLen([q \in 1..(p - 1) |->
                IF result.requests[q].type = "insertText"
                THEN result.requests[q].text ELSE <<>>])

\* C23: applied in order, every updateParagraphStyle and updateTextStyle of
\* the batch has a range that ends inside the document as it is then
C23_StyleRangesInsideDocument ==
  result.fn = "parseMarkdownToDocRequests" =>
    \A p \in 1..Len(result.requests) :
      result.requests[p].type \in {"updateParagraphStyle", "updateTextStyle"} =>
        /\ 1 <= result.requests[p].startIndex
        /\ result.requests[p].startIndex < result.requests[p].endIndex
        /\ result.requests[p].endIndex <= DocumentEndBefore(p)

\* what the lines from the i-th on are to insert, one entry for each
\* insertText: the segments of a non-blank line, and a blank entry for a
\* blank line that is not the last line
RECURSIVE Slots(_, _)
Slots(lines, i) ==
  IF i > Len(lines) THEN <<>>
  ELSE (IF Trim(lines[i]) = <<>>
        THEN IF i < Len(lines)
             THEN <<[blank |-> TRUE, text |-> <<>>, style |-> ""]>> ELSE <<>>
        ELSE LET segments == parseInlineFormatting(HeadingMatch(lines[i]).text)
             IN  [k \in 1..Len(segments) |->
                    [blank |-> FALSE, text |-> segments[k].text,
                     style |-> segments[k].style]])
       \o Slots(lines, i + 1)

\* the positions in the batch of the insertText requests, in order
InsertPositions ==
  SelectSeq([q \in 1..Len(result.requests) |-> q],
            LAMBDA q : result.requests[q].type = "insertText")

\* the positions of the updateTextStyle requests between the k-th insertText
\* and the next one
TextStylesOf(k) ==
  {p \in 1..Len(result.requests) :
     /\ result.requests[p].type = "updateTextStyle"
     /\ p > InsertPositions[k]
     /\ k < Len(InsertPositions) => p < InsertPositions[k + 1]}

SegmentsDecoded ==
  /\ result.fn = "parseMarkdownToDocRequests"
  /\ Len(InsertPositions) = Len(Slots(Split(req.markdown), 1))

\* the text style of the k-th insert: one when the segment is styled, over
\* the text of the segment from the index of the insert, none otherwise
TextStyleFits(k) ==
  LET slot == Slots(Split(req.markdown), 1)[k]
      c == result.requests[InsertPositions[k]].startIndex
  IN  /\ Cardinality(TextStylesOf(k)) = IF slot.style # "" THEN 1 ELSE 0
      /\ \A p \in TextStylesOf(k) :
           /\ result.requests[p].startIndex = c
           /\ result.requests[p].endIndex = c + Len(slot.text)

C25_UniformTabTagging ==
  req.op = "write-markdown-to-doc" =>
    \A i \in 1..Len(Emitted) : Emitted[i].tabId = req.tabId

\* a write to the second tab that cleared it and inserted styled text: the
\* delete, the inserts and the two kinds of style request all name the tab
C25_Witness ==
  /\ req.op = "write-markdown-to-doc"
  /\ pc = "done"
  /\ result.status = "ok"
  /\ req.tabId = SecondTabId
  /\ \A t \in {"deleteContentRange", "insertText", "updateParagraphStyle",
               "updateTextStyle"} :
       \E i \in 1..Len(Emitted) :
         Emitted[i].type = t /\ Emitted[i].tabId = SecondTabId

\* the tab, by its position among all the tabs of the document, that a
\* request for tabId is to work on: the first tab when none is named, else
\* the first whose identifier is tabId or whose title is tabId up to case
\* and surrounding white space (0 when there is none)
NamedTab(tabId) ==
  LET allTabs == collectAllTabs(doc.tabs)
      hits == {i \in 1..Len(allTabs) :
                 \/ allTabs[i].tabId = tabId
                 \/ /\ allTabs[i].title # <<>>
                    /\ Trim(ToLowerCase(allTabs[i].title)) = Trim(ToLowerCase(tabId))}
  IN  IF tabId = <<>> THEN 1
      ELSE IF hits = {} THEN 0 ELSE CHOOSE i \in hits : \A j \in hits : i <= j

\* C26: every request of every batch is addressed to the tab the operation
\* resolved and computed its indices from, also when the tab was named by
\* its title, when it is a child tab, and for the delete of a replaceAll
C26_EditsAddressTheResolvedTab ==
  Batches # <<>> =>
    \A i \in 1..Len(Emitted) :
      /\ NamedTab(req.tabId) # 0
      /\ RemoteTab(collectAllTabs(doc.tabs), Emitted[i].tabId) = NamedTab(req.tabId)

(***************************************************************************)
(* Blank lines                                                             *)
(***************************************************************************)
\* the positions in the batch of the inserts of a single newline that no
\* style request follows
BareNewlines ==
  {q \in 1..Len(result.requests) :
     /\ result.requests[q].type = "insertText"
     /\ result.requests[q].text = <<"\n">>
     /\ q < Len(result.requests) => result.requests[q + 1].type = "insertText"}

\* the blank lines of the text other than its last line
InnerBlankLines ==
  {i \in 1..(Len(Split(req.markdown)) - 1) : Trim(Split(req.markdown)[i]) = <<>>}

\* C27: each blank line other than the last line gives one insertText of a
\* single newline and no style request, a blank last line gives nothing: the
\* batch has as many bare newline inserts as there are such lines and one
\* updateParagraphStyle for each non-blank line; in the batch of
\* parseMarkdownToDocRequests the bare inserts stand where the blank lines do
C27_BlankLinesBecomeNewlines ==
  Decoded =>
    /\ Cardinality(BareNewlines) = Cardinality(InnerBlankLines)
    /\ Len(SelectSeq(result.requests, LAMBDA r : r.type = "updateParagraphStyle"))
         = Len(NonBlankLines)
    /\ result.fn = "parseMarkdownToDocRequests" =>
         /\ SegmentsDecoded
         /\ \A k \in 1..Len(InsertPositions) :
              Slots(Split(req.markdown), 1)[k].blank
                <=> InsertPositions[k] \in BareNewlines

(***************************************************************************)
(* The document after write-markdown-to-doc                                *)
(***************************************************************************)
\* the text the lines from the i-th on are to leave in the document: the
\* segments of a non-blank line without their markers and a newline, and a
\* newline for a blank line that is not the last line
RECURSIVE DecodedText(_, _)
DecodedText(lines, i) ==
  IF i > Len(lines) THEN <<>>
  ELSE (IF Trim(lines[i]) = <<>>
        THEN IF i < Len(lines) THEN <<"\n">> ELSE <<>>
        ELSE LET segments == parseInlineFormatting(HeadingMatch(lines[i]).text)
             IN  Concat([k \in 1..Len(segments) |-> segments[k].text]) \o <<"\n">>)
       \o DecodedText(lines, i + 1)

MarkdownWritten ==
  /\ req.op = "write-markdown-to-doc"
  /\ pc = "done"
  /\ result.status = "ok"

RECURSIVE RunsOfTree(_, _)
RunsOfTree(content, s) ==
  IF content = <<>> THEN <<>>
  ELSE LET el == Head(content)
           RECURSIVE RunsOfParagraph(_, _)
           RunsOfParagraph(elems, i) ==
             IF elems = <<>> THEN <<>>
             ELSE IF Head(elems).kind = "textRun"
               THEN <<[startIndex |-> i, endIndex |-> i + Len(Head(elems).content),
                       content |-> Head(elems).content]>>
                    \o RunsOfParagraph(Tail(elems), i + Len(Head(elems).content))
               ELSE RunsOfParagraph(Tail(elems), i + 1)
       IN  (IF el.kind = "paragraph" THEN RunsOfParagraph(el.elements, s)
            ELSE IF el.kind = "table" THEN RunsOfTree(TableCellContents(el), s)
            ELSE <<>>)
           \o RunsOfTree(Tail(content), s + Units(<<el>>))

\* the tree the request was answered from
StyleTree ==
  IF req.file = "server2" THEN StyleTarget(fetched, req.tabId).content
  ELSE TargetContent

QueryEnd == IF req.endIndex # 0 THEN req.endIndex ELSE req.startIndex + 1

\* C29: get-text-style returns exactly the text runs whose range overlaps
\* [startIndex, endIndex), each with the range it has in the tree
C29_StylesOfOverlappingRuns ==
  (req.op = "get-text-style" /\ pc = "done" /\ result.status = "ok") =>
    result.found
      = SelectSeq(RunsOfTree(StyleTree, 1),
                  LAMBDA r : r.startIndex < QueryEnd /\ r.endIndex > req.startIndex)

(***************************************************************************)
(* Start of the server (part_001): initClients() and main() are both       *)
(* started by the module and neither waits for the other.  pc holds the    *)
(* position of initClients, of main and of the tool handler; fetched holds *)
(* the two module-level clients and the document the handler fetched.      *)
(***************************************************************************)
\* docsClient taken to be usable whatever was assigned
NeverThrows(client) == FALSE

\* docsClient.documents.get on a client that was never assigned: the
\* property access throws a TypeError
Throws(client) == client = "undefined"

StartTools == {"read-doc-as-markdown", "write-markdown-to-doc"}

\* the state when the module has been evaluated: initClients is at its
\* await authorize(), main at its await server.connect(transport)
StartInit ==
  /\ doc \in Documents
  /\ pc = [initClients |-> "authorize", main |-> "connect", handler |-> "idle"]
  /\ req = NoArgs
  /\ fetched = [docsClient |-> "undefined", driveClient |-> "undefined",
                data |-> NoData]
  /\ calls = <<>>
  /\ result = [status |-> "none", error |-> "", index |-> 0, found |-> <<>>]

\* authorize() resolves: both clients are assigned, initClients returns true
InitClientsSucceeds ==
  /\ pc.initClients = "authorize"
  /\ pc.main # "exited"
  /\ fetched' = [fetched EXCEPT !.docsClient = "client", !.driveClient = "client"]
  /\ pc' = [pc EXCEPT !.initClients = "ready"]
  /\ UNCHANGED <<doc, req, calls, result>>

\* authorize() rejects: the catch block logs and returns false, the clients
\* stay unassigned
InitClientsFails ==
  /\ pc.initClients = "authorize"
  /\ pc.main # "exited"
  /\ pc' = [pc EXCEPT !.initClients = "failed"]
  /\ UNCHANGED <<doc, req, fetched, calls, result>>

\* server.connect resolves: requests are taken from now on
MainConnects ==
  /\ pc.main = "connect"
  /\ pc' = [pc EXCEPT !.main = "running"]
  /\ UNCHANGED <<doc, req, fetched, calls, result>>

\* server.connect rejects: main().catch logs and calls process.exit(1)
MainFails ==
  /\ pc.main = "connect"
  /\ pc' = [pc EXCEPT !.main = "exited"]
  /\ UNCHANGED <<doc, req, fetched, calls, result>>

\* a tool request is handled: the first statement that touches docsClient
\* throws inside the handler's try block when the client is unassigned, and
\* the catch block returns the error result; otherwise the handler fetches
\* the document and goes on as it does in Spec
StartToolRequest ==
  \E op \in StartTools, t \in TabIds, md \in Markdowns :
    LET a == [NoArgs EXCEPT !.op = op, !.file = "part_001", !.tabId = t,
                            !.markdown = IF op = "write-markdown-to-doc"
                                         THEN md ELSE <<>>]
        got == DocData(doc)
        target == ResolveTargetBody(got, t)
        plan == WriteMarkdownClear(got, a)
        markdownRequests == WriteMarkdownInsert(a)
    IN  /\ pc.main = "running"
        /\ pc.handler \in {"idle", "done"}
        /\ op = "read-doc-as-markdown" => md = <<>>
        /\ req' = a
        /\ UNCHANGED doc
        /\ IF Throws(fetched.docsClient)
           THEN /\ calls' = <<>>
                /\ result' = Error("TypeError")
                /\ pc' = [pc EXCEPT !.handler = "done"]
                /\ fetched' = [fetched EXCEPT !.data = NoData]
           ELSE /\ fetched' = [fetched EXCEPT !.data = got]
                /\ IF op = "read-doc-as-markdown"
                   THEN /\ calls' = <<Get>>
                        /\ result' = IF ~target.found THEN Error("TabNotFound")
                                     ELSE [Ok(0) EXCEPT !.found =
                                             convertDocToMarkdown(target.content)]
                        /\ pc' = [pc EXCEPT !.handler = "done"]
                   ELSE IF plan.error # ""
                     THEN /\ calls' = <<Get>>
                          /\ result' = Error(plan.error)
                          /\ pc' = [pc EXCEPT !.handler = "done"]
                     ELSE IF plan.requests # <<>>
                       THEN /\ calls' = <<Get, BatchUpdate(plan.requests)>>
                            /\ result' = result
                            /\ pc' = [pc EXCEPT !.handler = "awaitDelete"]
                       ELSE IF markdownRequests # <<>>
                         THEN /\ calls' = <<Get, BatchUpdate(markdownRequests)>>
                              /\ result' = result
                              /\ pc' = [pc EXCEPT !.handler = "awaitBatch"]
                         ELSE /\ calls' = <<Get>>
                              /\ result' = Ok(0)
                              /\ pc' = [pc EXCEPT !.handler = "done"]

\* the service applies the pending batch of write-markdown-to-doc
StartBatchSucceeds ==
  LET out == ApplyRequests(doc.tabs, Pending.requests)
      markdownRequests == WriteMarkdownInsert(req)
  IN  /\ pc.main = "running"
      /\ pc.handler \in {"awaitDelete", "awaitBatch"}
      /\ out.ok
      /\ doc' = [doc EXCEPT !.tabs = out.tabs]
      /\ IF pc.handler = "awaitDelete" /\ markdownRequests # <<>>
         THEN /\ calls' = Append(SetStatus(calls, "ok"), BatchUpdate(markdownRequests))
              /\ pc' = [pc EXCEPT !.handler = "awaitBatch"]
              /\ result' = result
         ELSE /\ calls' = SetStatus(calls, "ok")
              /\ pc' = [pc EXCEPT !.handler = "done"]
              /\ result' = Ok(0)
      /\ UNCHANGED <<req, fetched>>

\* the pending batch rejects: the catch block returns the error
StartBatchFails ==
  /\ pc.main = "running"
  /\ pc.handler \in {"awaitDelete", "awaitBatch"}
  /\ calls' = SetStatus(calls, "failed")
  /\ result' = Error("RemoteRejected")
  /\ pc' = [pc EXCEPT !.handler = "done"]
  /\ UNCHANGED <<doc, req, fetched>>

StartNext ==
  \/ InitClientsSucceeds
  \/ InitClientsFails
  \/ MainConnects
  \/ MainFails
  \/ StartToolRequest
  \/ StartBatchSucceeds
  \/ StartBatchFails

StartSpec == StartInit /\ [][StartNext]_vars

\* a request is taken up in this step
Handled ==
  /\ pc.handler \in {"idle", "done"}
  /\ pc'.initClients = pc.initClients
  /\ pc'.main = pc.main
  /\ vars' # vars

\* C30: a tool request handled while initClients has not completed, or after
\* it failed, returns an error result, sends nothing to the service, leaves
\* the document alone and leaves the server running; a request handled after
\* initClients succeeded is not refused and starts with its documents.get;
\* the process exits only when main's connect fails
C30_RequestsRacingWithInitClients ==
  [][ /\ (Handled /\ pc.initClients # "ready") =>
           /\ pc'.handler = "done"
           /\ result'.status = "error"
           /\ calls' = <<>>
           /\ doc' = doc
           /\ pc'.main = "running"
      /\ (Handled /\ pc.initClients = "ready") =>
           /\ pc'.handler = "done" => result'.error # "TypeError"
           /\ calls' # <<>> /\ calls'[1] = Get
           /\ pc'.main = "running"
      /\ (pc'.main = "exited" /\ pc.main # "exited") => pc.main = "connect"
    ]_vars

\* a request was answered with the error while initClients was still at its
\* await and the server was already connected
C30_Witness ==
  /\ pc.main = "running"
  /\ pc.initClients = "authorize"
  /\ pc.handler = "done"
  /\ req.op = "write-markdown-to-doc"
  /\ result.status = "error"
  /\ calls = <<>>

====
